---- MODULE Spec2Model ----
(***************************************************************************)
(* PatternSphere: the in-memory pattern repository                         *)
(* (patternsphere/repository/pattern_repository.py), the Pattern model     *)
(* (patternsphere/models/pattern.py) and the keyword search engine         *)
(* (patternsphere/search/search_engine.py), the loader                     *)
(* (patternsphere/loaders/oorp_loader.py) and the file storage             *)
(* (patternsphere/storage/file_storage.py).                                *)
(*                                                                         *)
(* A Python str is a sequence of code points: "" is << >>, "a" is <<97>>,  *)
(* "A" is <<65>>, "b" is <<98>>, "B" is <<66>>, " " is <<32>>.             *)
(* An Optional value is << >> for None and <<v>> for the value v.          *)
(* A Python dict is the sequence of its <<key, value>> items in insertion  *)
(* order.                                                                  *)
(***************************************************************************)
EXTENDS Integers, Sequences, FiniteSets, TLC

VARIABLES
    patterns,        \* InMemoryPatternRepository._patterns: dict id -> Pattern
    name_index,      \* InMemoryPatternRepository._name_index: dict name -> id
    category_index,  \* InMemoryPatternRepository._category_index: dict category -> list of ids
    ret,             \* the last call: its name, arguments, exception and return value
    pre,             \* <<_patterns, _name_index, _category_index>> when the last call began
    storage_file,    \* the file at FileStorage.storage_path: None, or the JSON text it holds
    last_save,       \* the list of the last save_patterns that succeeded since the file
                     \* was last removed, None when there is none
    temp_files,      \* the number of .tmp_*.json files in the directory of the storage file
    saved_repo,      \* the three dicts of the repository whose save_to_storage wrote the
                     \* storage file, None when the file is not there or was written otherwise
    self_storage,    \* InMemoryPatternRepository.storage: None, or the storage backend
    _instance,       \* AppContext._instance: None, or the AppContext object it refers to
    contexts,        \* the AppContext objects created so far; an object is known by its
                     \* place in this sequence
    repositories,    \* the repositories the AppContext objects created, each the three
                     \* dicts <<_patterns, _name_index, _category_index>>, known by its place
    obtained,        \* the AppContext objects that get_instance(), get_context() or a
                     \* PatternSphereMCPServer obtained since the last reset_instance()
    retired,         \* the AppContext objects obtained before the last reset_instance()
    stdin,           \* the lines of sys.stdin that PatternSphereMCPServer.run iterates over
    line_no,         \* the number of lines run has read
    stdout,          \* the lines run has printed, each the response it encodes
    request,         \* the local variable `request` of run: None while it is unbound
    running          \* whether run is in its loop: "running", "returned" at the end of
                     \* the input, or the exception that left it

repo == <<patterns, name_index, category_index>>
storage == <<storage_file, last_save, temp_files, saved_repo>>
\* what the FileStorage methods leave alone besides the repository
app == <<_instance, contexts, repositories, obtained, retired>>
mcp == <<stdin, line_no, stdout, request, running>>
beyond_storage == <<self_storage, app, mcp>>
\* what the methods that read or write the three dicts leave alone
outside == <<storage, beyond_storage>>
vars == <<repo, ret, pre, outside>>

(***************************************************************************)
(* Python values                                                           *)
(***************************************************************************)
None == << >>
Some(v) == <<v>>

\* bool(s) of a str or a list: it is not empty
Truthy(s) == Len(s) > 0

\* bool(o) of an Optional[str] or Optional[List]: not None and not empty
TruthyOpt(o) == o # None /\ Len(o[1]) > 0

\* str.isspace of one code point (the ASCII whitespace)
IsSpace(c) == c \in {9, 10, 11, 12, 13, 28, 29, 30, 31, 32}

\* str.lower()
Lower(s) == [i \in DOMAIN s |-> IF s[i] \in 65..90 THEN s[i] + 32 ELSE s[i]]

\* str.strip()
RECURSIVE LStrip(_)
LStrip(s) == IF s # << >> /\ IsSpace(Head(s)) THEN LStrip(Tail(s)) ELSE s
RECURSIVE RStrip(_)
RStrip(s) ==
    IF s # << >> /\ IsSpace(s[Len(s)]) THEN RStrip(SubSeq(s, 1, Len(s) - 1)) ELSE s
Strip(s) == RStrip(LStrip(s))

\* str.split(): the maximal runs of non-whitespace, in order
RECURSIVE SplitFrom(_, _, _)
SplitFrom(s, word, acc) ==
    IF s = << >>
    THEN IF word = << >> THEN acc ELSE Append(acc, word)
    ELSE IF IsSpace(Head(s))
         THEN SplitFrom(Tail(s), << >>, IF word = << >> THEN acc ELSE Append(acc, word))
         ELSE SplitFrom(Tail(s), Append(word, Head(s)), acc)
Split(s) == SplitFrom(s, << >>, << >>)

\* sep.join(parts)
RECURSIVE Join(_, _)
Join(sep, parts) ==
    IF parts = << >> THEN << >>
    ELSE IF Len(parts) = 1 THEN parts[1]
    ELSE parts[1] \o sep \o Join(sep, Tail(parts))

\* term in text, for two strs: substring
Contains(text, term) ==
    \E i \in 0..(Len(text) - Len(term)) : SubSeq(text, i + 1, i + Len(term)) = term

\* x in list
InList(x, list) == \E i \in DOMAIN list : list[i] = x

\* a < b for two strs: code point by code point, a proper prefix is smaller
StrLess(a, b) ==
    \E i \in 1..(Len(a) + 1) :
        /\ i <= Len(b)
        /\ \A j \in 1..(i - 1) : a[j] = b[j]
        /\ (i = Len(a) + 1 \/ a[i] < b[i])

\* dict operations on the insertion-ordered item sequence
DictHas(d, k) == \E i \in DOMAIN d : d[i][1] = k
DictGet(d, k, default) ==
    IF DictHas(d, k) THEN d[CHOOSE i \in DOMAIN d : d[i][1] = k][2] ELSE default
DictSet(d, k, v) ==
    IF DictHas(d, k)
    THEN [i \in DOMAIN d |-> IF d[i][1] = k THEN <<k, v>> ELSE d[i]]
    ELSE Append(d, <<k, v>>)
DictValues(d) == [i \in DOMAIN d |-> d[i][2]]

\* the set of a list's elements
Range(list) == {list[i] : i \in DOMAIN list}

\* list.sort(key=...) is stable: each element in turn goes before the first
\* already-sorted element whose key is greater, at the indices `greater`
InsertSorted(x, sorted, greater) ==
    LET pos == IF greater = {} THEN Len(sorted) + 1
               ELSE CHOOSE i \in greater : \A j \in greater : i <= j
    IN  SubSeq(sorted, 1, pos - 1) \o <<x>> \o SubSeq(sorted, pos, Len(sorted))

\* key=lambda p: p.name
NameKeyLessFolded(p, q) == StrLess(Lower(p.name), Lower(q.name))
NameKeyLess(p, q) == StrLess(p.name, q.name)

\* patterns.sort(key=lambda p: p.name)
SortByName(list) ==
    LET sortedPrefix[n \in 0..Len(list)] ==
            IF n = 0 THEN << >>
            ELSE InsertSorted(list[n], sortedPrefix[n - 1],
                     {i \in DOMAIN sortedPrefix[n - 1] :
                         NameKeyLess(list[n], sortedPrefix[n - 1][i])})
    IN  sortedPrefix[Len(list)]

(***************************************************************************)
(* Pattern (models/pattern.py): the fields the repository and the search   *)
(* engine read.                                                            *)
(***************************************************************************)
\* Field(min_length=1, max_length=...) and the field validators' rejections
PatternValid(raw) ==
    /\ Len(raw.name) >= 1 /\ Len(raw.name) <= 200 /\ Strip(raw.name) # << >>
    /\ Len(raw.intent) >= 1
    /\ Len(raw.problem) >= 1
    /\ Len(raw.solution) >= 1
    /\ Len(raw.category) >= 1 /\ Len(raw.category) <= 100 /\ Strip(raw.category) # << >>
    /\ Len(raw.source_name) >= 1

\* validate_tags: strip and lower each tag, drop the empty ones, keep first occurrences
RECURSIVE UniqueFrom(_, _)
UniqueFrom(tags, unique_tags) ==
    IF tags = << >> THEN unique_tags
    ELSE UniqueFrom(Tail(tags),
                    IF InList(Head(tags), unique_tags) THEN unique_tags
                    ELSE Append(unique_tags, Head(tags)))
validate_tags(v) ==
    LET kept == SelectSeq(v, LAMBDA tag : Truthy(Strip(tag)))
        cleaned_tags == [i \in DOMAIN kept |-> Lower(Strip(kept[i]))]
    IN  UniqueFrom(cleaned_tags, << >>)

\* validate_related_patterns: strip each entry, drop the empty ones
validate_related_patterns(v) ==
    LET kept == SelectSeq(v, LAMBDA p : Truthy(Strip(p)))
    IN  [i \in DOMAIN kept |-> Strip(kept[i])]

\* Pattern(**raw) for a raw record that validates: name and category stripped,
\* tags and related patterns normalised, the id and the source kept as given
\* (source_name stands for source_metadata; context, consequences and
\* created_at are read by no operation modelled here)
Pattern(raw) ==
    [id |-> raw.id,
     name |-> Strip(raw.name),
     intent |-> raw.intent,
     problem |-> raw.problem,
     solution |-> raw.solution,
     related_patterns |-> validate_related_patterns(raw.related_patterns),
     category |-> Strip(raw.category),
     tags |-> validate_tags(raw.tags),
     source_name |-> raw.source_name]

\* Pattern.has_tag
has_tag(p, tag) == InList(Lower(tag), p.tags)

(***************************************************************************)
(* InMemoryPatternRepository                                               *)
(***************************************************************************)
Call(op, args, raised, result) ==
    [op |-> op, args |-> args, raised |-> raised, result |-> result]

\* FileStorage(storage_path) on a path where no file is
StorageInit ==
    /\ storage_file = None
    /\ last_save = None
    /\ temp_files = 0
    /\ saved_repo = None

\* before any AppContext is created
AppInit ==
    /\ _instance = None
    /\ contexts = << >>
    /\ repositories = << >>
    /\ obtained = {}
    /\ retired = {}

\* before PatternSphereMCPServer.run is called, sys.stdin holding no line
McpInit ==
    /\ stdin = << >>
    /\ line_no = 0
    /\ stdout = << >>
    /\ request = None
    /\ running = "running"

\* __init__ without storage
Init ==
    /\ patterns = << >>
    /\ name_index = << >>
    /\ category_index = << >>
    /\ ret = Call("__init__", << >>, "", None)
    /\ pre = <<<< >>, << >>, << >>>>
    /\ self_storage = None
    /\ StorageInit
    /\ AppInit
    /\ McpInit

\* the patterns held by a _patterns dict, and by the repository now
Held(d) == {d[i][2] : i \in DOMAIN d}
Stored == Held(patterns)

\* pattern.id in self._patterns
IdExists(p) == DictHas(patterns, p.id)

\* pattern.name in self._name_index
NameNoCheck(p) == FALSE
NameExists(p) == DictHas(name_index, p.name)

\* add_pattern with the name collision found only after the primary store is written
add_pattern_late_check(p) ==
    IF IdExists(p)
    THEN /\ ret' = Call("add_pattern", <<p>>, "RepositoryError", None)
         /\ pre' = repo
         /\ UNCHANGED outside
         /\ UNCHANGED repo
    ELSE IF NameExists(p)
    THEN /\ patterns' = DictSet(patterns, p.id, p)
         /\ ret' = Call("add_pattern", <<p>>, "RepositoryError", None)
         /\ pre' = repo
         /\ UNCHANGED outside
         /\ UNCHANGED <<name_index, category_index>>
    ELSE /\ patterns' = DictSet(patterns, p.id, p)
         /\ name_index' = DictSet(name_index, p.name, p.id)
         /\ category_index' =
                DictSet(category_index, p.category,
                        Append(DictGet(category_index, p.category, << >>), p.id))
         /\ ret' = Call("add_pattern", <<p>>, "", None)
         /\ pre' = repo
         /\ UNCHANGED outside

add_pattern(p) ==
    IF IdExists(p)
    THEN /\ ret' = Call("add_pattern", <<p>>, "RepositoryError", None)
         /\ pre' = repo
         /\ UNCHANGED outside
         /\ UNCHANGED repo
    ELSE IF NameExists(p)
    THEN /\ ret' = Call("add_pattern", <<p>>, "RepositoryError", None)
         /\ pre' = repo
         /\ UNCHANGED outside
         /\ UNCHANGED repo
    ELSE /\ patterns' = DictSet(patterns, p.id, p)
         /\ name_index' = DictSet(name_index, p.name, p.id)
         \* defaultdict(list): a missing category starts as []
         /\ category_index' =
                DictSet(category_index, p.category,
                        Append(DictGet(category_index, p.category, << >>), p.id))
         /\ ret' = Call("add_pattern", <<p>>, "", None)
         /\ pre' = repo
         /\ UNCHANGED outside

get_pattern_by_id(pattern_id) ==
    IF DictHas(patterns, pattern_id) THEN Some(DictGet(patterns, pattern_id, None))
    ELSE None

get_pattern_by_name(name) ==
    LET pattern_id == IF DictHas(name_index, name)
                      THEN Some(DictGet(name_index, name, None)) ELSE None
    IN  \* if pattern_id: neither None nor the empty str
        IF TruthyOpt(pattern_id) THEN get_pattern_by_id(pattern_id[1]) ELSE None

\* list(self._patterns.values()), not sorted
list_all_patterns_unsorted == DictValues(patterns)

list_all_patterns == SortByName(DictValues(patterns))

get_patterns_by_category_unsorted(category) ==
    LET pattern_ids == DictGet(category_index, category, << >>)
        present == SelectSeq(pattern_ids, LAMBDA pid : DictHas(patterns, pid))
    IN  [i \in DOMAIN present |-> DictGet(patterns, present[i], None)]

get_patterns_by_category(category) ==
    LET pattern_ids == DictGet(category_index, category, << >>)
        present == SelectSeq(pattern_ids, LAMBDA pid : DictHas(patterns, pid))
    IN  SortByName([i \in DOMAIN present |-> DictGet(patterns, present[i], None)])

\* the dict category -> len(pattern_ids), as its items
get_all_categories ==
    [i \in DOMAIN category_index |->
        <<category_index[i][1], Len(category_index[i][2])>>]

count == Len(patterns)

clear_store_only ==
    /\ patterns' = << >>
    /\ name_index' = << >>
    /\ UNCHANGED category_index
    /\ ret' = Call("clear", << >>, "", None)
    /\ pre' = repo
    /\ UNCHANGED outside

clear ==
    /\ patterns' = << >>
    /\ name_index' = << >>
    /\ category_index' = << >>
    /\ ret' = Call("clear", << >>, "", None)
    /\ pre' = repo
    /\ UNCHANGED outside

\* the read calls: the repository is left alone, the return value recorded
Call_get_pattern_by_id(pattern_id) ==
    /\ ret' = Call("get_pattern_by_id", <<pattern_id>>, "", get_pattern_by_id(pattern_id))
    /\ pre' = repo
    /\ UNCHANGED outside
    /\ UNCHANGED repo

Call_get_pattern_by_name(name) ==
    /\ ret' = Call("get_pattern_by_name", <<name>>, "", get_pattern_by_name(name))
    /\ pre' = repo
    /\ UNCHANGED outside
    /\ UNCHANGED repo

Call_list_all_patterns ==
    /\ ret' = Call("list_all_patterns", << >>, "", list_all_patterns)
    /\ pre' = repo
    /\ UNCHANGED outside
    /\ UNCHANGED repo

\* the call with self._category_index[category] in place of .get(category, [])
Call_get_patterns_by_category_subscript(category) ==
    /\ ret' = Call("get_patterns_by_category", <<category>>, "",
                   get_patterns_by_category(category))
    /\ pre' = repo
    /\ UNCHANGED outside
    /\ category_index' = IF DictHas(category_index, category) THEN category_index
                         ELSE Append(category_index, <<category, << >>>>)
    /\ UNCHANGED <<patterns, name_index>>

Call_get_patterns_by_category(category) ==
    /\ ret' = Call("get_patterns_by_category", <<category>>, "",
                   get_patterns_by_category(category))
    /\ pre' = repo
    /\ UNCHANGED outside
    /\ UNCHANGED repo

Call_get_all_categories ==
    /\ ret' = Call("get_all_categories", << >>, "", get_all_categories)
    /\ pre' = repo
    /\ UNCHANGED outside
    /\ UNCHANGED repo

Call_count ==
    /\ ret' = Call("count", << >>, "", count)
    /\ pre' = repo
    /\ UNCHANGED outside
    /\ UNCHANGED repo

(***************************************************************************)
(* KeywordSearchEngine (search/search_engine.py).                          *)
(* Every score of the engine is a multiple of 0.25. The model holds twice  *)
(* each field weight and twice each match score, so that a field's raw     *)
(* score is held as 2 * raw and a pattern's score as 4 * score.            *)
(***************************************************************************)
\* FIELD_WEIGHTS, in the dict's order: name 5.0, intent 3.0, problem 2.0,
\* solution 1.5, tags 4.0, category 2.5 (held doubled)
FIELD_WEIGHTS ==
    << <<"name", 10>>, <<"intent", 6>>, <<"problem", 4>>,
       <<"solution", 3>>, <<"tags", 8>>, <<"category", 5>> >>

\* EXACT_MATCH_SCORE = 1.0 and PARTIAL_MATCH_SCORE = 0.5 (held doubled)
EXACT_MATCH_SCORE == 2
PARTIAL_MATCH_SCORE == 1

SearchResult(pattern, score, matched_fields) ==
    [pattern |-> pattern, score |-> score, matched_fields |-> matched_fields]

_normalize_query(query) ==
    LET words == Split(query)
        terms == [i \in DOMAIN words |-> Lower(Strip(words[i]))]
    IN  SelectSeq(terms, Truthy)

\* the for loop over query_terms of _score_field
RECURSIVE ScoreTermsSubstringFirst(_, _, _, _)
ScoreTermsSubstringFirst(query_terms, field_words, field_text, field_score) ==
    IF query_terms = << >> THEN field_score
    ELSE LET term == Head(query_terms)
         IN  ScoreTermsSubstringFirst(Tail(query_terms), field_words, field_text,
                 IF Contains(field_text, term) THEN field_score + PARTIAL_MATCH_SCORE
                 ELSE IF term \in field_words
                      THEN field_score + EXACT_MATCH_SCORE
                      ELSE field_score)
RECURSIVE ScoreTermsAllMustMatch(_, _, _, _)
ScoreTermsAllMustMatch(query_terms, field_words, field_text, field_score) ==
    IF query_terms = << >> THEN field_score
    ELSE LET term == Head(query_terms)
         IN  IF term \in field_words
             THEN ScoreTermsAllMustMatch(Tail(query_terms), field_words, field_text,
                                         field_score + EXACT_MATCH_SCORE)
             ELSE IF Contains(field_text, term)
                  THEN ScoreTermsAllMustMatch(Tail(query_terms), field_words, field_text,
                                              field_score + PARTIAL_MATCH_SCORE)
                  ELSE 0
\* the loop that counts a term only when it is a whole word of the field
RECURSIVE ScoreTermsWholeWords(_, _, _, _)
ScoreTermsWholeWords(query_terms, field_words, field_text, field_score) ==
    IF query_terms = << >> THEN field_score
    ELSE LET term == Head(query_terms)
         IN  ScoreTermsWholeWords(Tail(query_terms), field_words, field_text,
                 IF term \in field_words THEN field_score + EXACT_MATCH_SCORE
                 ELSE field_score)
RECURSIVE ScoreTerms(_, _, _, _)
ScoreTerms(query_terms, field_words, field_text, field_score) ==
    IF query_terms = << >> THEN field_score
    ELSE LET term == Head(query_terms)
         IN  ScoreTerms(Tail(query_terms), field_words, field_text,
                 IF term \in field_words THEN field_score + EXACT_MATCH_SCORE
                 ELSE IF Contains(field_text, term)
                      THEN field_score + PARTIAL_MATCH_SCORE
                      ELSE field_score)

_score_field(pattern, field_name, query_terms) ==
    LET field_text == IF field_name = "tags"
                      THEN Lower(Join(<<32>>, pattern.tags))
                      ELSE Lower(pattern[field_name])
    IN  IF ~Truthy(field_text) THEN 0
        ELSE ScoreTerms(query_terms, Range(Split(field_text)), field_text, 0)

\* the for loop over FIELD_WEIGHTS.items() of _score_pattern
RECURSIVE ScoreFieldsAddsAll(_, _, _, _, _)
ScoreFieldsAddsAll(fields, pattern, query_terms, total_score, matched_fields) ==
    IF fields = << >> THEN <<total_score, matched_fields>>
    ELSE LET field_name == Head(fields)[1]
             weight == Head(fields)[2]
             field_score == _score_field(pattern, field_name, query_terms)
         IN  ScoreFieldsAddsAll(Tail(fields), pattern, query_terms,
                                total_score + field_score * weight,
                                matched_fields \cup {field_name})
RECURSIVE ScoreFields(_, _, _, _, _)
ScoreFields(fields, pattern, query_terms, total_score, matched_fields) ==
    IF fields = << >> THEN <<total_score, matched_fields>>
    ELSE LET field_name == Head(fields)[1]
             weight == Head(fields)[2]
             field_score == _score_field(pattern, field_name, query_terms)
         IN  IF field_score > 0
             THEN ScoreFields(Tail(fields), pattern, query_terms,
                              total_score + field_score * weight,
                              matched_fields \cup {field_name})
             ELSE ScoreFields(Tail(fields), pattern, query_terms,
                              total_score, matched_fields)

_score_pattern(pattern, query_terms) ==
    ScoreFields(FIELD_WEIGHTS, pattern, query_terms, 0, {})

_filter_by_tags_all(list, tags) ==
    IF ~Truthy(tags) THEN list
    ELSE LET tags_lower == [i \in DOMAIN tags |-> Lower(tags[i])]
         IN  SelectSeq(list,
                       LAMBDA p : \A i \in DOMAIN tags_lower : has_tag(p, tags_lower[i]))

_filter_by_tags(list, tags) ==
    IF ~Truthy(tags) THEN list
    ELSE LET tags_lower == [i \in DOMAIN tags |-> Lower(tags[i])]
         IN  SelectSeq(list,
                       LAMBDA p : \E i \in DOMAIN tags_lower : has_tag(p, tags_lower[i]))

(***************************************************************************)
(* The unranked search of the repository (pattern_repository.py) and the   *)
(* substring match of the pattern (pattern.py)                             *)
(***************************************************************************)
matches_search_query(p, query) ==
    LET query_lower == Lower(query)
        searchable_text ==
            Join(<<32>>, <<Lower(p.name), Lower(p.intent), Lower(p.problem),
                           Lower(p.solution), Join(<<32>>, p.tags)>>)
    IN  Contains(searchable_text, query_lower)

\* search_patterns(query, category, tags); category and tags are Optional
search_patterns(query, category, tags) ==
    LET base == IF TruthyOpt(category)
                THEN get_patterns_by_category(category[1])
                ELSE DictValues(patterns)
        tagged == IF TruthyOpt(tags)
                  THEN LET tags_lower == [i \in DOMAIN tags[1] |-> Lower(tags[1][i])]
                       IN  SelectSeq(base,
                               LAMBDA p : \E i \in DOMAIN tags_lower :
                                              has_tag(p, tags_lower[i]))
                  ELSE base
        matching == IF Truthy(query)
                    THEN SelectSeq(tagged, LAMBDA p : matches_search_query(p, query))
                    ELSE tagged
    IN  SortByName(matching)

Call_search_patterns(query, category, tags) ==
    /\ ret' = Call("search_patterns", <<query, category, tags>>, "",
                   search_patterns(query, category, tags))
    /\ pre' = repo
    /\ UNCHANGED outside
    /\ UNCHANGED repo

\* key=lambda r: r.pattern.name
ResultNameKeyLess(r, s) == StrLess(r.pattern.name, s.pattern.name)

ResultRankKeyLessAscending(r, s) ==
    \/ r.score < s.score
    \/ (r.score = s.score /\ StrLess(r.pattern.name, s.pattern.name))

\* key=lambda r: (-r.score, r.pattern.name)
ResultRankKeyLess(r, s) ==
    \/ -r.score < -s.score
    \/ (r.score = s.score /\ StrLess(r.pattern.name, s.pattern.name))

\* results.sort(key=lambda r: r.pattern.name)
SortResultsByName(results) ==
    LET sortedPrefix[n \in 0..Len(results)] ==
            IF n = 0 THEN << >>
            ELSE InsertSorted(results[n], sortedPrefix[n - 1],
                     {i \in DOMAIN sortedPrefix[n - 1] :
                         ResultNameKeyLess(results[n], sortedPrefix[n - 1][i])})
    IN  sortedPrefix[Len(results)]

\* results.sort(key=lambda r: (-r.score, r.pattern.name))
SortResultsByRank(results) ==
    LET sortedPrefix[n \in 0..Len(results)] ==
            IF n = 0 THEN << >>
            ELSE InsertSorted(results[n], sortedPrefix[n - 1],
                     {i \in DOMAIN sortedPrefix[n - 1] :
                         ResultRankKeyLess(results[n], sortedPrefix[n - 1][i])})
    IN  sortedPrefix[Len(results)]

\* not query or not query.strip()
NoQueryUnstripped(query) == ~Truthy(query)
NoQuery(query) == ~Truthy(query) \/ ~Truthy(Strip(query))

search_keeps_zero(query, category, tags) ==
    LET base == IF TruthyOpt(category)
                THEN get_patterns_by_category(category[1])
                ELSE list_all_patterns
        candidates == IF TruthyOpt(tags) THEN _filter_by_tags(base, tags[1]) ELSE base
    IN  IF NoQuery(query)
        THEN SortResultsByName(
                 [i \in DOMAIN candidates |-> SearchResult(candidates[i], 0, {})])
        ELSE LET query_terms == _normalize_query(query)
                 scored == [i \in DOMAIN candidates |->
                               LET sm == _score_pattern(candidates[i], query_terms)
                               IN  SearchResult(candidates[i], sm[1], sm[2])]
             IN  SortResultsByRank(SelectSeq(scored, LAMBDA r : r.score >= 0))

\* search(query, category, tags); category and tags are Optional
search(query, category, tags) ==
    LET base == IF TruthyOpt(category)
                THEN get_patterns_by_category(category[1])
                ELSE list_all_patterns
        candidates == IF TruthyOpt(tags) THEN _filter_by_tags(base, tags[1]) ELSE base
    IN  IF NoQuery(query)
        THEN SortResultsByName(
                 [i \in DOMAIN candidates |-> SearchResult(candidates[i], 0, {})])
        ELSE LET query_terms == _normalize_query(query)
                 scored == [i \in DOMAIN candidates |->
                               LET sm == _score_pattern(candidates[i], query_terms)
                               IN  SearchResult(candidates[i], sm[1], sm[2])]
             IN  SortResultsByRank(SelectSeq(scored, LAMBDA r : r.score > 0))

\* the call with self.repository._category_index[category] read for the
\* category filter
Call_search_subscript(query, category, tags) ==
    /\ ret' = Call("search", <<query, category, tags>>, "", search(query, category, tags))
    /\ pre' = repo
    /\ UNCHANGED outside
    /\ category_index' = IF TruthyOpt(category) /\ ~DictHas(category_index, category[1])
                         THEN Append(category_index, <<category[1], << >>>>)
                         ELSE category_index
    /\ UNCHANGED <<patterns, name_index>>

Call_search(query, category, tags) ==
    /\ ret' = Call("search", <<query, category, tags>>, "", search(query, category, tags))
    /\ pre' = repo
    /\ UNCHANGED outside
    /\ UNCHANGED repo

Call_score_field(pattern, field_name, query_terms) ==
    /\ ret' = Call("_score_field", <<pattern, field_name, query_terms>>, "",
                   _score_field(pattern, field_name, query_terms))
    /\ pre' = repo
    /\ UNCHANGED outside
    /\ UNCHANGED repo

(***************************************************************************)
(* Python values as json reads and writes them: a value is its type and    *)
(* its content, a dict the sequence of its <<key, value>> items; a JSON    *)
(* text is held as the document it spells.                                 *)
(***************************************************************************)
PyNone == [t |-> "NoneType", v |-> << >>]
PyStr(s) == [t |-> "str", v |-> s]
PyList(items) == [t |-> "list", v |-> items]
\* an instance of a class json has no encoding for
PyObject == [t |-> "object", v |-> << >>]
PyDict(items) == [t |-> "dict", v |-> items]

JsonNull == [j |-> "null", v |-> << >>]
JsonString(s) == [j |-> "string", v |-> s]
JsonArray(elements) == [j |-> "array", v |-> elements]
JsonObject(members) == [j |-> "object", v |-> members]
\* a text that is not JSON
NotJson == [j |-> "invalid", v |-> << >>]

\* json.load of a text that is JSON
RECURSIVE JsonLoad(_)
JsonLoad(doc) ==
    CASE doc.j = "null" -> PyNone
      [] doc.j = "string" -> PyStr(doc.v)
      [] doc.j = "array" -> PyList([i \in DOMAIN doc.v |-> JsonLoad(doc.v[i])])
      [] doc.j = "object" ->
             PyDict([i \in DOMAIN doc.v |-> <<doc.v[i][1], JsonLoad(doc.v[i][2])>>])

\* json.dump raises TypeError
RECURSIVE NotSerializable(_)
NotSerializable(value) ==
    CASE value.t \in {"NoneType", "str"} -> FALSE
      [] value.t = "list" -> \E i \in DOMAIN value.v : NotSerializable(value.v[i])
      [] value.t = "dict" -> \E i \in DOMAIN value.v : NotSerializable(value.v[i][2])
      [] OTHER -> TRUE

\* json.dump of a value it can encode
RECURSIVE JsonDump(_)
JsonDump(value) ==
    CASE value.t = "NoneType" -> JsonNull
      [] value.t = "str" -> JsonString(value.v)
      [] value.t = "list" -> JsonArray([i \in DOMAIN value.v |-> JsonDump(value.v[i])])
      [] value.t = "dict" ->
             JsonObject([i \in DOMAIN value.v |-> <<value.v[i][1], JsonDump(value.v[i][2])>>])

(***************************************************************************)
(* FileStorage (storage/file_storage.py). On either platform the rename of *)
(* the temporary file puts it in the place of the storage file; when the   *)
(* write or the rename fails the temporary file is removed.                *)
(***************************************************************************)
\* the number of temporary files left behind is followed up to this many
MaxTempFiles == 1

\* save_patterns with the new list written after the list already in the file
save_patterns_appending(patterns_arg, rename_ok, unlink_ok) ==
    /\ unlink_ok \/ temp_files < MaxTempFiles
    /\ ret' = Call("save_patterns", <<patterns_arg>>,
                   IF patterns_arg.t = "list" /\ ~NotSerializable(patterns_arg) /\ rename_ok
                   THEN "" ELSE "StorageError", None)
    /\ pre' = repo
    /\ UNCHANGED <<repo, beyond_storage>>
    /\ IF patterns_arg.t # "list"
       THEN UNCHANGED storage
       ELSE IF NotSerializable(patterns_arg) \/ ~rename_ok
       THEN /\ temp_files' = IF unlink_ok THEN temp_files ELSE temp_files + 1
            /\ UNCHANGED <<storage_file, last_save, saved_repo>>
       ELSE /\ storage_file' =
                   IF storage_file = None THEN Some(JsonDump(patterns_arg))
                   ELSE Some(JsonArray(storage_file[1].v \o JsonDump(patterns_arg).v))
            /\ last_save' = Some(patterns_arg)
            /\ saved_repo' = None
            /\ UNCHANGED temp_files

\* save_patterns that opens the storage file itself and writes the list into
\* it: a list json cannot encode leaves the file cut short
save_patterns_in_place(patterns_arg, rename_ok, unlink_ok) ==
    /\ pre' = repo
    /\ UNCHANGED <<repo, beyond_storage, temp_files>>
    /\ IF patterns_arg.t # "list"
       THEN /\ ret' = Call("save_patterns", <<patterns_arg>>, "StorageError", None)
            /\ UNCHANGED <<storage_file, last_save, saved_repo>>
       ELSE IF NotSerializable(patterns_arg)
       THEN /\ ret' = Call("save_patterns", <<patterns_arg>>, "StorageError", None)
            /\ storage_file' = Some(NotJson)
            /\ UNCHANGED <<last_save, saved_repo>>
       ELSE /\ storage_file' = Some(JsonDump(patterns_arg))
            /\ last_save' = Some(patterns_arg)
            /\ saved_repo' = None
            /\ ret' = Call("save_patterns", <<patterns_arg>>, "", None)

\* save_patterns(patterns); rename_ok: the operating system renames the
\* temporary file; unlink_ok: it removes the temporary file when asked to
save_patterns(patterns_arg, rename_ok, unlink_ok) ==
    /\ unlink_ok \/ temp_files < MaxTempFiles
    /\ pre' = repo
    /\ UNCHANGED <<repo, beyond_storage>>
    /\ IF patterns_arg.t # "list"
       THEN \* raised before tempfile.mkstemp
            /\ ret' = Call("save_patterns", <<patterns_arg>>, "StorageError", None)
            /\ UNCHANGED storage
       ELSE IF NotSerializable(patterns_arg) \/ ~rename_ok
       THEN \* os.unlink(temp_path), an OSError of it passed over, then the
            \* exception wrapped
            /\ ret' = Call("save_patterns", <<patterns_arg>>, "StorageError", None)
            /\ temp_files' = IF unlink_ok THEN temp_files ELSE temp_files + 1
            /\ UNCHANGED <<storage_file, last_save, saved_repo>>
       ELSE \* the temporary file renamed to the storage file
            /\ storage_file' = Some(JsonDump(patterns_arg))
            /\ last_save' = Some(patterns_arg)
            /\ saved_repo' = None
            /\ ret' = Call("save_patterns", <<patterns_arg>>, "", None)
            /\ UNCHANGED temp_files

exists == storage_file # None

\* what load_patterns() does: the exception it raises and the list it returns
LoadOutcome ==
    IF ~exists THEN [raised |-> "", result |-> PyList(<< >>)]
    ELSE IF storage_file[1] = NotJson THEN [raised |-> "StorageError", result |-> None]
    ELSE IF JsonLoad(storage_file[1]).t # "list"
    THEN [raised |-> "StorageError", result |-> None]
    ELSE [raised |-> "", result |-> JsonLoad(storage_file[1])]

load_patterns ==
    /\ pre' = repo
    /\ UNCHANGED <<repo, outside>>
    /\ IF ~exists
       THEN ret' = Call("load_patterns", << >>, "", PyList(<< >>))
       ELSE IF storage_file[1] = NotJson
       THEN ret' = Call("load_patterns", << >>, "StorageError", None)
       ELSE IF JsonLoad(storage_file[1]).t # "list"
       THEN ret' = Call("load_patterns", << >>, "StorageError", None)
       ELSE ret' = Call("load_patterns", << >>, "", JsonLoad(storage_file[1]))

Call_exists ==
    /\ ret' = Call("exists", << >>, "", exists)
    /\ pre' = repo
    /\ UNCHANGED <<repo, outside>>

\* FileStorage.clear
storage_clear ==
    /\ ret' = Call("storage_clear", << >>, "", None)
    /\ pre' = repo
    /\ UNCHANGED <<repo, beyond_storage>>
    /\ IF exists
       THEN /\ storage_file' = None
            /\ last_save' = None
            /\ saved_repo' = None
            /\ UNCHANGED temp_files
       ELSE UNCHANGED storage

(***************************************************************************)
(* Pattern.from_dict (models/pattern.py) and OORPLoader                    *)
(* (loaders/oorp_loader.py)                                                *)
(***************************************************************************)
\* the fields of Pattern that have no default
RequiredStrFields == {"name", "intent", "problem", "solution", "category"}

IsListOfStr(value) ==
    value.t = "list" /\ \A i \in DOMAIN value.v : value.v[i].t = "str"

\* the keyword arguments model_validate takes from a dict; the id of a
\* record without one is given by from_dict_for
RawOf(data) ==
    [id |-> DictGet(data.v, "id", PyStr(<< >>)).v,
     name |-> DictGet(data.v, "name", PyNone).v,
     intent |-> DictGet(data.v, "intent", PyNone).v,
     problem |-> DictGet(data.v, "problem", PyNone).v,
     solution |-> DictGet(data.v, "solution", PyNone).v,
     related_patterns |->
         LET related == DictGet(data.v, "related_patterns", PyList(<< >>)).v
         IN  [i \in DOMAIN related |-> related[i].v],
     category |-> DictGet(data.v, "category", PyNone).v,
     tags |-> LET tags == DictGet(data.v, "tags", PyList(<< >>)).v
              IN  [i \in DOMAIN tags |-> tags[i].v],
     source_name |->
         DictGet(DictGet(data.v, "source_metadata", PyNone).v, "source_name", PyNone).v]

\* model_validate(data) raises ValidationError, a ValueError
ValidationError(data) ==
    \/ data.t # "dict"
    \/ \E k \in RequiredStrFields : DictGet(data.v, k, PyNone).t # "str"
    \/ DictGet(data.v, "id", PyStr(<< >>)).t # "str"
    \/ ~IsListOfStr(DictGet(data.v, "tags", PyList(<< >>)))
    \/ ~IsListOfStr(DictGet(data.v, "related_patterns", PyList(<< >>)))
    \/ LET source_metadata == DictGet(data.v, "source_metadata", PyNone)
       IN  \/ source_metadata.t # "dict"
           \/ DictGet(source_metadata.v, "source_name", PyNone).t # "str"
           \/ Len(DictGet(source_metadata.v, "source_name", PyNone).v) < 1
    \/ ~PatternValid(RawOf(data))

from_dict(data) == Pattern(RawOf(data))

\* default_factory=lambda: str(uuid4()): an id that no pattern of the three
\* dicts r has, the first of "u0", "u1", ...
uuid4(r) ==
    LET k == CHOOSE k \in 0..Len(r[1]) :
                 /\ ~DictHas(r[1], <<117, 48 + k>>)
                 /\ \A j \in 0..(k - 1) : DictHas(r[1], <<117, 48 + j>>)
    IN  <<117, 48 + k>>

\* Pattern.from_dict(data) of a record that validates, made for the
\* repository r: a record without an id gets the default
from_dict_for(data, r) ==
    IF DictHas(data.v, "id") THEN from_dict(data)
    ELSE [from_dict(data) EXCEPT !.id = uuid4(r)]

\* the check of the id alone
AddRaisesById(r, p) == DictHas(r[1], p.id)

\* add_pattern on the three dicts r: whether it raises, and the dicts after it
AddRaises(r, p) == DictHas(r[1], p.id) \/ DictHas(r[2], p.name)
AddResult(r, p) ==
    <<DictSet(r[1], p.id, p),
      DictSet(r[2], p.name, p.id),
      DictSet(r[3], p.category, Append(DictGet(r[3], p.category, << >>), p.id))>>

LoaderStats(total_patterns, loaded_successfully, failed_patterns, errors) ==
    [total_patterns |-> total_patterns,
     loaded_successfully |-> loaded_successfully,
     failed_patterns |-> failed_patterns,
     errors |-> errors]

\* f'pattern_{i}'
DefaultName(i) == <<112, 97, 116, 116, 101, 114, 110, 95, 48 + i>>

\* the loop `for i, pattern_dict in enumerate(data, 1)` from record i on; a
\* message of errors is held as the name it quotes and the exception it quotes
RECURSIVE LoadRecords(_, _, _, _, _, _)
LoadRecords(data, i, r, loaded_successfully, failed_patterns, errors) ==
    IF i > Len(data)
    THEN [raised |-> "", repo |-> r,
          stats |-> LoaderStats(Len(data), loaded_successfully, failed_patterns, errors)]
    ELSE LET pattern_dict == data[i]
         IN  IF ValidationError(pattern_dict)
             THEN \* pattern_dict.get in the except clause
                  IF pattern_dict.t # "dict"
                  THEN [raised |-> "AttributeError", repo |-> r,
                        stats |-> LoaderStats(Len(data), loaded_successfully,
                                              failed_patterns + 1, errors)]
                  ELSE LoadRecords(data, i + 1, r, loaded_successfully,
                           failed_patterns + 1,
                           Append(errors,
                                  <<DictGet(pattern_dict.v, "name", PyStr(DefaultName(i))),
                                    "ValidationError">>))
             ELSE IF AddRaises(r, from_dict_for(pattern_dict, r))
             THEN LoadRecords(data, i + 1, r, loaded_successfully, failed_patterns + 1,
                      Append(errors, <<DictGet(pattern_dict.v, "name", PyNone),
                                       "RepositoryError">>))
             ELSE LoadRecords(data, i + 1, AddResult(r, from_dict_for(pattern_dict, r)),
                      loaded_successfully + 1, failed_patterns, errors)

load_from_dict(patterns_data) ==
    IF patterns_data.t # "list"
    THEN /\ ret' = Call("load_from_dict", <<patterns_data>>, "ValueError", None)
         /\ pre' = repo
         /\ UNCHANGED outside
         /\ UNCHANGED repo
    ELSE \E out \in {LoadRecords(patterns_data.v, 1, repo, 0, 0, << >>)} :
             /\ patterns' = out.repo[1]
             /\ name_index' = out.repo[2]
             /\ category_index' = out.repo[3]
             /\ ret' = Call("load_from_dict", <<patterns_data>>, out.raised,
                            IF out.raised = "" THEN out.stats ELSE None)
             /\ pre' = repo
             /\ UNCHANGED outside

\* load_from_file(file_path), `file` being what is at the path: whether a
\* file exists there and the text it holds
load_from_file(file) ==
    IF ~file.exists
    THEN /\ ret' = Call("load_from_file", <<file>>, "FileNotFoundError", None)
         /\ pre' = repo
         /\ UNCHANGED outside
         /\ UNCHANGED repo
    ELSE IF file.text = NotJson
    THEN /\ ret' = Call("load_from_file", <<file>>, "JSONDecodeError", None)
         /\ pre' = repo
         /\ UNCHANGED outside
         /\ UNCHANGED repo
    ELSE IF JsonLoad(file.text).t # "list"
    THEN /\ ret' = Call("load_from_file", <<file>>, "ValueError", None)
         /\ pre' = repo
         /\ UNCHANGED outside
         /\ UNCHANGED repo
    ELSE \E out \in {LoadRecords(JsonLoad(file.text).v, 1, repo, 0, 0, << >>)} :
             /\ patterns' = out.repo[1]
             /\ name_index' = out.repo[2]
             /\ category_index' = out.repo[3]
             /\ ret' = Call("load_from_file", <<file>>, out.raised,
                            IF out.raised = "" THEN out.stats ELSE None)
             /\ pre' = repo
             /\ UNCHANGED outside

(***************************************************************************)
(* The repository over a storage backend                                   *)
(* (repository/pattern_repository.py, models/pattern.py)                   *)
(***************************************************************************)
\* Pattern.to_dict: model_dump(mode='json'), the fields in their order
to_dict(p) ==
    PyDict(<< <<"id", PyStr(p.id)>>,
              <<"name", PyStr(p.name)>>,
              <<"intent", PyStr(p.intent)>>,
              <<"problem", PyStr(p.problem)>>,
              <<"solution", PyStr(p.solution)>>,
              <<"related_patterns",
                PyList([i \in DOMAIN p.related_patterns |-> PyStr(p.related_patterns[i])])>>,
              <<"category", PyStr(p.category)>>,
              <<"tags", PyList([i \in DOMAIN p.tags |-> PyStr(p.tags[i])])>>,
              <<"source_metadata", PyDict(<< <<"source_name", PyStr(p.source_name)>> >>)>> >>)

\* the loop of _load_from_storage from record i on, r the three dicts so far
RECURSIVE _load_from_storage(_, _, _)
_load_from_storage(pattern_dicts, i, r) ==
    IF i > Len(pattern_dicts)
    THEN [raised |-> "", repo |-> r]
    ELSE LET pattern_dict == pattern_dicts[i]
         IN  IF ValidationError(pattern_dict)
             THEN \* pattern_dict.get in the warning of the except clause
                  IF pattern_dict.t # "dict"
                  THEN [raised |-> "AttributeError", repo |-> r]
                  ELSE _load_from_storage(pattern_dicts, i + 1, r)
             ELSE IF AddRaises(r, from_dict_for(pattern_dict, r))
             THEN _load_from_storage(pattern_dicts, i + 1, r)
             ELSE _load_from_storage(pattern_dicts, i + 1,
                                     AddResult(r, from_dict_for(pattern_dict, r)))

\* InMemoryPatternRepository(storage=storage_arg): the repository the caller
\* holds from then on; when the constructor raises there is no new
\* repository and the caller keeps the one it had
InMemoryPatternRepository(storage_arg) ==
    /\ pre' = repo
    /\ UNCHANGED <<storage, app, mcp>>
    /\ IF storage_arg = None
       THEN /\ patterns' = << >>
            /\ name_index' = << >>
            /\ category_index' = << >>
            /\ self_storage' = storage_arg
            /\ ret' = Call("InMemoryPatternRepository", <<storage_arg>>, "", None)
       ELSE IF LoadOutcome.raised # ""
       THEN /\ ret' = Call("InMemoryPatternRepository", <<storage_arg>>,
                           "RepositoryError", None)
            /\ UNCHANGED <<repo, self_storage>>
       ELSE \E out \in {_load_from_storage(LoadOutcome.result.v, 1,
                                           <<<< >>, << >>, << >>>>)} :
                IF out.raised # ""
                THEN /\ ret' = Call("InMemoryPatternRepository", <<storage_arg>>,
                                    out.raised, None)
                     /\ UNCHANGED <<repo, self_storage>>
                ELSE /\ patterns' = out.repo[1]
                     /\ name_index' = out.repo[2]
                     /\ category_index' = out.repo[3]
                     /\ self_storage' = storage_arg
                     /\ ret' = Call("InMemoryPatternRepository", <<storage_arg>>, "", None)

\* save_to_storage(), the storage backend being a FileStorage
save_to_storage(rename_ok, unlink_ok) ==
    /\ unlink_ok \/ temp_files < MaxTempFiles
    /\ pre' = repo
    /\ UNCHANGED <<repo, self_storage, app, mcp>>
    /\ IF self_storage = None
       THEN /\ ret' = Call("save_to_storage", << >>, "RepositoryError", None)
            /\ UNCHANGED storage
       ELSE IF ~rename_ok
       THEN \* the StorageError of save_patterns wrapped
            /\ ret' = Call("save_to_storage", << >>, "RepositoryError", None)
            /\ temp_files' = IF unlink_ok THEN temp_files ELSE temp_files + 1
            /\ UNCHANGED <<storage_file, last_save, saved_repo>>
       ELSE \E pattern_dicts \in
                {PyList([i \in DOMAIN patterns |-> to_dict(patterns[i][2])])} :
                /\ storage_file' = Some(JsonDump(pattern_dicts))
                /\ last_save' = Some(pattern_dicts)
                /\ saved_repo' = Some(repo)
                /\ ret' = Call("save_to_storage", << >>, "", None)
                /\ UNCHANGED temp_files

(***************************************************************************)
(* AppContext (cli/app_context.py), get_context (cli/commands.py) and the  *)
(* constructor of PatternSphereMCPServer (mcp/server.py). A call on an     *)
(* AppContext names the object by its place ctx in `contexts`.             *)
(***************************************************************************)
\* the AppContext and repository objects followed
MaxContexts == 2
MaxRepositories == 2

\* the fields set by __init__ and by get_instance on a new object
NewContext ==
    [_repository |-> None, _search_engine |-> None,
     _initialized |-> FALSE, _load_stats |-> None]

\* InMemoryPatternRepository()
EmptyRepository == <<<< >>, << >>, << >>>>

\* KeywordSearchEngine(repository)
KeywordSearchEngine(repository_id) == [repository |-> repository_id]

\* OORPLoader(r).load_from_file(file_path) on the three dicts r, `file` being
\* what is at the path: the exception raised, the dicts after it, the stats
LoadFile(file, r) ==
    IF ~file.exists
    THEN [raised |-> "FileNotFoundError", repo |-> r, stats |-> None]
    ELSE IF file.text = NotJson
    THEN [raised |-> "JSONDecodeError", repo |-> r, stats |-> None]
    ELSE IF JsonLoad(file.text).t # "list"
    THEN [raised |-> "ValueError", repo |-> r, stats |-> None]
    ELSE LoadRecords(JsonLoad(file.text).v, 1, r, 0, 0, << >>)

\* sorted(keys) of strs
RECURSIVE SortedStrs(_)
SortedStrs(strs) ==
    IF strs = << >> THEN << >>
    ELSE LET sorted == SortedStrs(SubSeq(strs, 1, Len(strs) - 1))
             x == strs[Len(strs)]
         IN  InsertSorted(x, sorted, {i \in DOMAIN sorted : StrLess(x, sorted[i])})

\* the properties and the counting methods of the AppContext ctx: the
\* exception raised and the value returned
is_initialized(ctx) == contexts[ctx]._initialized
load_stats(ctx) == contexts[ctx]._load_stats
repository(ctx) ==
    IF contexts[ctx]._repository = None
    THEN [raised |-> "RuntimeError", result |-> None]
    ELSE [raised |-> "", result |-> contexts[ctx]._repository[1]]
search_engine(ctx) ==
    IF contexts[ctx]._search_engine = None
    THEN [raised |-> "RuntimeError", result |-> None]
    ELSE [raised |-> "", result |-> contexts[ctx]._search_engine[1]]
get_pattern_count(ctx) ==
    IF contexts[ctx]._repository = None THEN 0
    ELSE Len(repositories[contexts[ctx]._repository[1]][1])
get_pattern_count_by_category(ctx) ==
    IF contexts[ctx]._repository = None THEN << >>
    ELSE LET index == repositories[contexts[ctx]._repository[1]][3]
         IN  [i \in DOMAIN index |-> <<index[i][1], Len(index[i][2])>>]
get_categories(ctx) ==
    IF contexts[ctx]._repository = None THEN << >>
    ELSE LET counts == get_pattern_count_by_category(ctx)
         IN  SortedStrs([i \in DOMAIN counts |-> counts[i][1]])

\* load_patterns(file_path) of the AppContext ctx, `file` being what is at the
\* path: the exception raised, the contexts and the repositories after it
LoadPatterns(ctx, file, ctxs, repos) ==
    IF ctxs[ctx]._repository = None
    THEN [raised |-> "RuntimeError", contexts |-> ctxs, repositories |-> repos,
          result |-> None]
    ELSE LET rid == ctxs[ctx]._repository[1]
             out == LoadFile(file, repos[rid])
         IN  [raised |-> out.raised,
              contexts |-> IF out.raised # "" THEN ctxs
                           ELSE [ctxs EXCEPT ![ctx]._load_stats = Some(out.stats)],
              repositories |-> [repos EXCEPT ![rid] = out.repo],
              result |-> IF out.raised # "" THEN None ELSE out.stats]

\* initialize(auto_load) that does not look at _initialized
InitializeAgain(ctx, auto_load, file, ctxs, repos) ==
    LET rid == Len(repos) + 1
        created == [ctxs EXCEPT ![ctx]._repository = Some(rid),
                                ![ctx]._search_engine = Some(KeywordSearchEngine(rid))]
        loaded == LoadPatterns(ctx, file, created, Append(repos, EmptyRepository))
    IN  IF auto_load /\ loaded.raised # ""
        THEN [raised |-> loaded.raised, contexts |-> loaded.contexts,
              repositories |-> loaded.repositories]
        ELSE IF auto_load
        THEN [raised |-> "",
              contexts |-> [loaded.contexts EXCEPT ![ctx]._initialized = TRUE],
              repositories |-> loaded.repositories]
        ELSE [raised |-> "",
              contexts |-> [created EXCEPT ![ctx]._initialized = TRUE],
              repositories |-> Append(repos, EmptyRepository)]

\* initialize(auto_load) of the AppContext ctx, `file` being what is at the
\* default path: the exception raised, the contexts and the repositories
\* after it
Initialize(ctx, auto_load, file, ctxs, repos) ==
    IF ctxs[ctx]._initialized
    THEN [raised |-> "", contexts |-> ctxs, repositories |-> repos]
    ELSE LET rid == Len(repos) + 1
             created == [ctxs EXCEPT ![ctx]._repository = Some(rid),
                                     ![ctx]._search_engine = Some(KeywordSearchEngine(rid))]
             loaded == LoadPatterns(ctx, file, created, Append(repos, EmptyRepository))
         IN  IF auto_load /\ loaded.raised # ""
             THEN [raised |-> loaded.raised, contexts |-> loaded.contexts,
                   repositories |-> loaded.repositories]
             ELSE IF auto_load
             THEN [raised |-> "",
                   contexts |-> [loaded.contexts EXCEPT ![ctx]._initialized = TRUE],
                   repositories |-> loaded.repositories]
             ELSE [raised |-> "",
                   contexts |-> [created EXCEPT ![ctx]._initialized = TRUE],
                   repositories |-> Append(repos, EmptyRepository)]

\* what the AppContext calls leave alone
outside_app == <<repo, storage, self_storage, mcp>>

\* AppContext.get_instance()
get_instance ==
    /\ _instance = None => Len(contexts) < MaxContexts
    /\ pre' = repo
    /\ UNCHANGED <<outside_app, repositories, retired>>
    /\ IF _instance = None
       THEN /\ contexts' = Append(contexts, NewContext)
            /\ _instance' = Some(Len(contexts) + 1)
       ELSE UNCHANGED <<contexts, _instance>>
    /\ obtained' = obtained \cup {_instance'[1]}
    /\ ret' = Call("get_instance", << >>, "", _instance'[1])

\* AppContext.reset_instance()
reset_instance ==
    /\ _instance' = None
    /\ retired' = retired \cup obtained
    /\ obtained' = {}
    /\ ret' = Call("reset_instance", << >>, "", None)
    /\ pre' = repo
    /\ UNCHANGED <<outside_app, contexts, repositories>>

\* ctx.initialize(auto_load)
initialize(ctx, auto_load, file) ==
    /\ ~contexts[ctx]._initialized => Len(repositories) < MaxRepositories
    /\ \E out \in {Initialize(ctx, auto_load, file, contexts, repositories)} :
           /\ contexts' = out.contexts
           /\ repositories' = out.repositories
           /\ ret' = Call("initialize", <<ctx, auto_load>>, out.raised, None)
    /\ pre' = repo
    /\ UNCHANGED <<outside_app, _instance, obtained, retired>>

\* ctx.load_patterns(file_path)
AppContext_load_patterns(ctx, file) ==
    /\ \E out \in {LoadPatterns(ctx, file, contexts, repositories)} :
           /\ contexts' = out.contexts
           /\ repositories' = out.repositories
           /\ ret' = Call("load_patterns", <<ctx>>, out.raised, out.result)
    /\ pre' = repo
    /\ UNCHANGED <<outside_app, _instance, obtained, retired>>

\* get_context() of the CLI commands: get_instance(), then initialize when the
\* context is not initialized; an exception of initialize becomes typer.Exit
get_context(file) ==
    /\ _instance = None => Len(contexts) < MaxContexts
    /\ LET ctx == IF _instance = None THEN Len(contexts) + 1 ELSE _instance[1]
           got == IF _instance = None THEN Append(contexts, NewContext) ELSE contexts
       IN  /\ ~got[ctx]._initialized => Len(repositories) < MaxRepositories
           /\ _instance' = Some(ctx)
           /\ \E out \in {Initialize(ctx, TRUE, file, got, repositories)} :
                  /\ contexts' = out.contexts
                  /\ repositories' = out.repositories
                  /\ obtained' = IF out.raised = "" THEN obtained \cup {ctx} ELSE obtained
                  /\ ret' = Call("get_context", << >>,
                                 IF out.raised = "" THEN "" ELSE "Exit",
                                 IF out.raised = "" THEN ctx ELSE None)
    /\ pre' = repo
    /\ UNCHANGED <<outside_app, retired>>

\* PatternSphereMCPServer(): AppContext(), which raises when there is a
\* singleton instance, then initialize() on the new object; the server keeps
\* the object as app_context
PatternSphereMCPServer(file) ==
    /\ _instance = None => (Len(contexts) < MaxContexts
                               /\ Len(repositories) < MaxRepositories)
    /\ pre' = repo
    /\ UNCHANGED <<outside_app, _instance, retired>>
    /\ IF _instance # None
       THEN /\ ret' = Call("PatternSphereMCPServer", << >>, "RuntimeError", None)
            /\ UNCHANGED <<contexts, repositories, obtained>>
       ELSE LET ctx == Len(contexts) + 1
            IN  \E out \in {Initialize(ctx, TRUE, file, Append(contexts, NewContext),
                                       repositories)} :
                    /\ contexts' = out.contexts
                    /\ repositories' = out.repositories
                    /\ obtained' = IF out.raised = "" THEN obtained \cup {ctx} ELSE obtained
                    /\ ret' = Call("PatternSphereMCPServer", << >>, out.raised,
                                   IF out.raised = "" THEN ctx ELSE None)

(***************************************************************************)
(* PatternSphereMCPServer.run (mcp/server.py). A line of sys.stdin is the  *)
(* JSON document it spells, or NotJson; method names, tool names and        *)
(* argument names are held as TLA+ strings. A response is held as its id   *)
(* and its error code, None for a response with a result.                  *)
(***************************************************************************)
\* value == name, for a name held as a TLA+ string
IsStr(value, name) == value.t = "str" /\ value.v = name

Response(id, code) == [id |-> id, error |-> code]

\* the keyword parameters of the tool methods: those without a default, all
ToolRequired(tool_name) ==
    CASE tool_name = "search_patterns" -> {"query"}
      [] tool_name = "get_pattern" -> {"pattern_name"}
      [] tool_name = "list_patterns" -> {}
      [] tool_name = "get_pattern_recommendations" -> {"problem"}
ToolAllowed(tool_name) ==
    CASE tool_name = "search_patterns" -> {"query", "category", "tags", "limit"}
      [] tool_name = "get_pattern" -> {"pattern_name"}
      [] tool_name = "list_patterns" -> {"category"}
      [] tool_name = "get_pattern_recommendations" -> {"problem", "limit"}

\* handle_tool_call(tool_name, arguments) raises: the tool methods catch what
\* their bodies raise, so only the call self.<tool>(**arguments) can, with
\* arguments that are no mapping or do not fit the parameters (TypeError)
ToolCallRaises(tool_name, arguments) ==
    IF /\ tool_name.t = "str"
       /\ tool_name.v \in {"search_patterns", "get_pattern", "list_patterns",
                            "get_pattern_recommendations"}
    THEN \/ arguments.t # "dict"
         \/ LET given == {arguments.v[i][1] : i \in DOMAIN arguments.v}
            IN  ~(ToolRequired(tool_name.v) \subseteq given
                     /\ given \subseteq ToolAllowed(tool_name.v))
    ELSE \* list_categories() and the unknown tool take no argument from it
         FALSE

\* one turn of the loop on the line `text`, `bound` being what the local
\* variable `request` holds from the turns before: the exception that leaves
\* run, what `request` holds afterwards, the responses printed
HandleLine(text, bound) ==
    IF text = NotJson
    THEN \* json.loads raises; the handler reads `request` when it is in locals()
         IF bound = None
         THEN [raised |-> "", request |-> bound, printed |-> <<Response(PyNone, Some(-32603))>>]
         ELSE IF bound[1].t # "dict"
         THEN [raised |-> "AttributeError", request |-> bound, printed |-> << >>]
         ELSE [raised |-> "", request |-> bound,
               printed |-> <<Response(DictGet(bound[1].v, "id", PyNone), Some(-32603))>>]
    ELSE LET parsed == JsonLoad(text)
         IN  IF parsed.t # "dict"
             THEN \* request.get raises AttributeError, in the try block and
                  \* again in the handler
                  [raised |-> "AttributeError", request |-> Some(parsed), printed |-> << >>]
             ELSE LET method == DictGet(parsed.v, "method", PyNone)
                      params == DictGet(parsed.v, "params", PyDict(<< >>))
                      request_id == DictGet(parsed.v, "id", PyNone)
                  IN  [raised |-> "", request |-> Some(parsed),
                       printed |->
                           IF IsStr(method, "initialize") \/ IsStr(method, "tools/list")
                           THEN <<Response(request_id, None)>>
                           ELSE IF IsStr(method, "tools/call")
                           THEN IF params.t # "dict"
                                THEN \* params.get raises AttributeError
                                     <<Response(request_id, Some(-32603))>>
                                ELSE IF ToolCallRaises(
                                            DictGet(params.v, "name", PyNone),
                                            DictGet(params.v, "arguments", PyDict(<< >>)))
                                THEN <<Response(request_id, Some(-32603))>>
                                ELSE <<Response(request_id, None)>>
                           ELSE <<Response(request_id, Some(-32601))>>]

\* a turn of `for line in sys.stdin`
run_line ==
    /\ running = "running"
    /\ line_no < Len(stdin)
    /\ \E out \in {HandleLine(stdin[line_no + 1], request)} :
           /\ line_no' = line_no + 1
           /\ request' = out.request
           /\ stdout' = stdout \o out.printed
           /\ running' = IF out.raised = "" THEN "running" ELSE out.raised
           /\ ret' = Call("run_line", <<stdin[line_no + 1]>>, out.raised, None)
    /\ pre' = repo
    /\ UNCHANGED <<repo, storage, self_storage, app, stdin>>

\* the end of sys.stdin: run returns
run_return ==
    /\ running = "running"
    /\ line_no = Len(stdin)
    /\ running' = "returned"
    /\ ret' = Call("run", << >>, "", None)
    /\ pre' = repo
    /\ UNCHANGED <<repo, storage, self_storage, app, stdin, line_no, stdout, request>>

(***************************************************************************)
(* A second repository given the patterns of the first in another order    *)
(***************************************************************************)
\* add_pattern of list[i], list[i + 1], ... on the three dicts r; every call
\* succeeds, the patterns being those of one repository
RECURSIVE AddAll(_, _, _)
AddAll(list, i, r) ==
    IF i > Len(list) THEN r ELSE AddAll(list, i + 1, AddResult(r, list[i]))

\* InMemoryPatternRepository(), then add_pattern of each pattern the
\* repository at hand holds, the pattern at place order[1] of _patterns
\* first; the caller holds the new repository from then on, and keeps what
\* it listed from the old one
add_patterns_in_order(order, listed) ==
    /\ \E r \in {AddAll([i \in DOMAIN order |-> patterns[order[i]][2]], 1,
                        <<<< >>, << >>, << >>>>)} :
           /\ patterns' = r[1]
           /\ name_index' = r[2]
           /\ category_index' = r[3]
    /\ ret' = Call("add_patterns_in_order", <<order>>, "", listed)
    /\ pre' = repo
    /\ UNCHANGED outside

(***************************************************************************)
(* The calls made on the repository                                        *)
(***************************************************************************)
MaxIds == 3

\* "", "1", "2", ...
Ids == {<< >>} \cup {<<48 + i>> : i \in 1..(MaxIds - 1)}
\* "a", "A", "B b", " a"
RawNames == {<<97>>, <<65>>, <<66, 32, 98>>, <<32, 97>>}
\* "Ab", "b"
Categories == {<<65, 98>>, <<98>>}

RepoPatterns ==
    {Pattern(raw) : raw \in
        {r \in [id : Ids, name : RawNames, intent : {<<97>>}, problem : {<<98>>},
                solution : {<<97, 98>>}, category : Categories, tags : {<<<<97>>>>},
                related_patterns : {<< >>}, source_name : {<<115>>}] :
            PatternValid(r)}}

\* the ids, names and categories asked for: the stored ones and one never stored
IdArgs == Ids \cup {<<57>>}
NameArgs == {Strip(n) : n \in RawNames} \cup {<<122>>}
CategoryArgs == Categories \cup {<< >>, <<122>>}

Next ==
    \/ \E p \in RepoPatterns : add_pattern(p)
    \/ clear
    \/ \E pattern_id \in IdArgs : Call_get_pattern_by_id(pattern_id)
    \/ \E name \in NameArgs : Call_get_pattern_by_name(name)
    \/ Call_list_all_patterns
    \/ \E category \in CategoryArgs : Call_get_patterns_by_category(category)
    \/ Call_get_all_categories
    \/ Call_count

Spec == Init /\ [][Next]_vars

(***************************************************************************)
(* Browsing: searches with an empty or blank query over a small corpus     *)
(***************************************************************************)
\* "1", "2"
BrowseIds == {<<49>>, <<50>>}
\* "a", "A", "B b"
BrowseNames == {<<97>>, <<65>>, <<66, 32, 98>>}
\* [], ["A"], ["ab", "b"]
RawTagLists == {<< >>, <<<<65>>>>, <<<<97, 98>>, <<98>>>>}

BrowsePatterns ==
    {Pattern(raw) : raw \in
        {r \in [id : BrowseIds, name : BrowseNames, intent : {<<97>>}, problem : {<<98>>},
                solution : {<<97, 98>>}, category : Categories, tags : RawTagLists,
                related_patterns : {<< >>}, source_name : {<<115>>}] :
            PatternValid(r)}}

\* "" and " "
BrowseQueries == {<< >>, <<32>>}
\* None, "", "Ab", "b", "z"
OptCategoryArgs == {None} \cup {Some(c) : c \in CategoryArgs}
\* None, [], ["A"], ["z", "B"]
OptTagArgs == {None, Some(<< >>), Some(<<<<65>>>>), Some(<<<<122>>, <<66>>>>)}

BrowseNext ==
    \/ \E p \in BrowsePatterns : add_pattern(p)
    \/ clear
    \/ \E query \in BrowseQueries, category \in OptCategoryArgs, tags \in OptTagArgs :
           Call_search(query, category, tags)

BrowseSpec == Init /\ [][BrowseNext]_vars

(***************************************************************************)
(* Ranking: scored searches under category and tag filters over a small    *)
(* corpus whose names, categories and tags decide the match                *)
(***************************************************************************)
\* "a", "A", "b"
RankNames == {<<97>>, <<65>>, <<98>>}

RankPatterns ==
    {Pattern(raw) : raw \in
        {r \in [id : BrowseIds, name : RankNames, intent : {<<99>>}, problem : {<<99>>},
                solution : {<<99>>}, category : Categories, tags : RawTagLists,
                related_patterns : {<< >>}, source_name : {<<115>>}] :
            PatternValid(r)}}

\* "A", "b", "z"
RankQueries == {<<65>>, <<98>>, <<122>>}
\* None, "Ab"
RankCategoryArgs == {None, Some(<<65, 98>>)}
\* None, ["a", "B"]
RankTagArgs == {None, Some(<<<<97>>, <<66>>>>)}

RankNext ==
    \/ \E p \in RankPatterns : add_pattern(p)
    \/ clear
    \/ \E query \in RankQueries, category \in RankCategoryArgs, tags \in RankTagArgs :
           Call_search(query, category, tags)

RankSpec == Init /\ [][RankNext]_vars

(***************************************************************************)
(* Tag filter: searches under tag lists of either case, of one tag and of  *)
(* two, over the same corpus                                               *)
(***************************************************************************)
\* "" and "A"
TagQueries == {<< >>, <<65>>}
\* None, ["A"], ["a"], ["a", "B"], ["z"]
TagArgs ==
    {None, Some(<<<<65>>>>), Some(<<<<97>>>>), Some(<<<<97>>, <<66>>>>), Some(<<<<122>>>>)}

TagNext ==
    \/ \E p \in RankPatterns : add_pattern(p)
    \/ clear
    \/ \E query \in TagQueries, tags \in TagArgs : Call_search(query, None, tags)

TagSpec == Init /\ [][TagNext]_vars

(***************************************************************************)
(* Unranked search: search_patterns under queries that lie within a field, *)
(* across two fields and nowhere                                           *)
(***************************************************************************)
UnrankedPatterns ==
    {Pattern(raw) : raw \in
        {r \in [id : BrowseIds, name : RankNames, intent : {<<98>>}, problem : {<<99>>},
                solution : {<<99>>}, category : Categories, tags : RawTagLists,
                related_patterns : {<< >>}, source_name : {<<115>>}] :
            PatternValid(r)}}

\* "", "A B", "ab", "z"
UnrankedQueries == {<< >>, <<65, 32, 66>>, <<97, 98>>, <<122>>}
\* None, "", "Ab"
UnrankedCategoryArgs == {None, Some(<< >>), Some(<<65, 98>>)}
\* None, [], ["B"]
UnrankedTagArgs == {None, Some(<< >>), Some(<<<<66>>>>)}

UnrankedNext ==
    \/ \E p \in UnrankedPatterns : add_pattern(p)
    \/ clear
    \/ \E query \in UnrankedQueries, category \in UnrankedCategoryArgs,
          tags \in UnrankedTagArgs :
           Call_search_patterns(query, category, tags)

UnrankedSpec == Init /\ [][UnrankedNext]_vars

(***************************************************************************)
(* Reading: every query of the repository and both searches, between       *)
(* add_pattern and clear                                                   *)
(***************************************************************************)
ReadPatterns ==
    {Pattern(raw) : raw \in
        {r \in [id : BrowseIds, name : {<<97>>, <<66, 32, 98>>}, intent : {<<97>>},
                problem : {<<98>>}, solution : {<<97, 98>>}, category : Categories,
                tags : {<< >>, <<<<65>>>>},
                related_patterns : {<< >>}, source_name : {<<115>>}] :
            PatternValid(r)}}

\* "" and "a"
ReadQueries == {<< >>, <<97>>}
\* None and ["A"]
ReadTagArgs == {None, Some(<<<<65>>>>)}

ReadNext ==
    \/ \E p \in ReadPatterns : add_pattern(p)
    \/ clear
    \/ \E pattern_id \in BrowseIds \cup {<<57>>} : Call_get_pattern_by_id(pattern_id)
    \/ \E name \in NameArgs : Call_get_pattern_by_name(name)
    \/ Call_list_all_patterns
    \/ \E category \in CategoryArgs : Call_get_patterns_by_category(category)
    \/ Call_get_all_categories
    \/ Call_count
    \/ \E query \in ReadQueries, category \in OptCategoryArgs, tags \in ReadTagArgs :
           Call_search(query, category, tags)
    \/ \E query \in ReadQueries, category \in OptCategoryArgs, tags \in ReadTagArgs :
           Call_search_patterns(query, category, tags)

ReadSpec == Init /\ [][ReadNext]_vars

(***************************************************************************)
(* Loading: batches of records that validate, that collide by id or by     *)
(* name, that do not validate, and that are no JSON object                 *)
(***************************************************************************)
MaxRecords == 2

\* a record with every field a Pattern requires
RecordDoc(id, name) ==
    JsonObject(<< <<"id", JsonString(id)>>,
                  <<"name", JsonString(name)>>,
                  <<"intent", JsonString(<<99>>)>>,
                  <<"problem", JsonString(<<99>>)>>,
                  <<"solution", JsonString(<<99>>)>>,
                  <<"category", JsonString(<<98>>)>>,
                  <<"tags", JsonArray(<<JsonString(<<65>>)>>)>>,
                  <<"source_metadata",
                    JsonObject(<< <<"source_name", JsonString(<<115>>)>> >>)>> >>)

\* ("1", "a"), ("2", "b"), ("2", "a"); a record with nothing but a name, an
\* empty record, and null
LoaderDocs ==
    {RecordDoc(<<49>>, <<97>>), RecordDoc(<<50>>, <<98>>), RecordDoc(<<50>>, <<97>>),
     JsonObject(<< <<"name", JsonString(<<98>>)>> >>),
     JsonObject(<< >>),
     JsonNull}

\* the JSON arrays of at most MaxRecords records
LoaderArrays ==
    {JsonArray(records) : records \in UNION {[1..n -> LoaderDocs] : n \in 0..MaxRecords}}

\* what load_from_dict is given: the lists these arrays spell, and a dict
LoaderData == {JsonLoad(array) : array \in LoaderArrays} \cup {PyDict(<< >>)}

\* what load_from_file finds at the path: no file, a text that is not JSON, a
\* JSON object, one of the arrays
LoaderFiles ==
    {[exists |-> FALSE, text |-> NotJson], [exists |-> TRUE, text |-> NotJson],
     [exists |-> TRUE, text |-> JsonObject(<< >>)]}
        \cup {[exists |-> TRUE, text |-> array] : array \in LoaderArrays}

LoaderNext ==
    \/ \E patterns_data \in LoaderData : load_from_dict(patterns_data)
    \/ \E file \in LoaderFiles : load_from_file(file)
    \/ clear

LoaderSpec == Init /\ [][LoaderNext]_vars

(***************************************************************************)
(* Reloading: the same batch of records given to load_from_dict again      *)
(***************************************************************************)
\* a record with every field a Pattern requires but the id
RecordWithoutId(name) ==
    JsonObject(<< <<"name", JsonString(name)>>,
                  <<"intent", JsonString(<<99>>)>>,
                  <<"problem", JsonString(<<99>>)>>,
                  <<"solution", JsonString(<<99>>)>>,
                  <<"category", JsonString(<<98>>)>>,
                  <<"source_metadata",
                    JsonObject(<< <<"source_name", JsonString(<<115>>)>> >>)>> >>)

\* ("1", "a"), ("1", "b"), and "a" and "c" without an id
ReloadDocs ==
    {RecordDoc(<<49>>, <<97>>), RecordDoc(<<49>>, <<98>>),
     RecordWithoutId(<<97>>), RecordWithoutId(<<99>>)}

\* the lists of at most MaxRecords of these records
ReloadData ==
    {JsonLoad(JsonArray(records)) :
        records \in UNION {[1..n -> ReloadDocs] : n \in 0..MaxRecords}}

ReloadNext ==
    \/ \E patterns_data \in ReloadData : load_from_dict(patterns_data)
    \/ clear

ReloadSpec == Init /\ [][ReloadNext]_vars

(***************************************************************************)
(* Storing: saves of lists of dicts, of a list json cannot encode and of a *)
(* dict, with loads, exists and clear between them                         *)
(***************************************************************************)
MaxSaved == 2

\* {"name": "a"}, {"name": "b", "tags": ["A"]}, {"x": None}
SavedDicts ==
    {PyDict(<< <<"name", PyStr(<<97>>)>> >>),
     PyDict(<< <<"name", PyStr(<<98>>)>>, <<"tags", PyList(<<PyStr(<<65>>)>>)>> >>),
     PyDict(<< <<"x", PyNone>> >>)}

\* the lists of at most MaxSaved of these dicts, a list that holds an object
\* json cannot encode, and a dict
SaveArgs ==
    {PyList(dicts) : dicts \in UNION {[1..n -> SavedDicts] : n \in 0..MaxSaved}}
        \cup {PyList(<<PyDict(<< <<"x", PyObject>> >>)>>), PyDict(<< >>)}

StorageNext ==
    \/ \E patterns_arg \in SaveArgs, rename_ok \in BOOLEAN, unlink_ok \in BOOLEAN :
           save_patterns(patterns_arg, rename_ok, unlink_ok)
    \/ load_patterns
    \/ Call_exists
    \/ storage_clear

StorageSpec == Init /\ [][StorageNext]_vars

(***************************************************************************)
(* Persisting: patterns added, the repository saved to its storage, a      *)
(* repository constructed over the storage, and lists of records written   *)
(* to the storage file behind the repository's back                        *)
(***************************************************************************)
\* "", "1"
PersistIds == {<< >>, <<49>>}
\* "a", "b"
PersistNames == {<<97>>, <<98>>}
\* [" b", " "]
RelatedLists == {<<<<32, 98>>, <<32>>>>}

PersistPatterns ==
    {Pattern(raw) : raw \in
        {r \in [id : PersistIds, name : PersistNames, intent : {<<99>>},
                problem : {<<99>>}, solution : {<<99>>}, category : {<<98>>},
                tags : {<<<<65>>>>}, related_patterns : RelatedLists,
                source_name : {<<115>>}] :
            PatternValid(r)}}

\* the storage backends a repository is constructed with: none, a FileStorage
StorageArgs == {None, Some("FileStorage")}

\* records of a storage file that no Pattern comes from: a dict without the
\* required fields, and None
BadRecords == {PyDict(<< <<"name", PyStr(<<97>>)>> >>), PyNone}

\* the records written to the storage file directly: the dicts of the
\* patterns ("1", "a"), ("1", "b") and ("", "b"), which share an id or a
\* name, and the bad records
StoredRecords ==
    {to_dict(p) : p \in {q \in PersistPatterns : q.id = <<49>> \/ q.name = <<98>>}}
        \cup BadRecords

\* the lists of one and of two of these records
StoredLists ==
    {PyList(<<first>>) : first \in StoredRecords}
        \cup {PyList(<<first, second>>) : first \in StoredRecords, second \in StoredRecords}

PersistNext ==
    \/ \E p \in PersistPatterns : add_pattern(p)
    \/ \E rename_ok \in BOOLEAN : save_to_storage(rename_ok, TRUE)
    \/ \E storage_arg \in StorageArgs : InMemoryPatternRepository(storage_arg)
    \/ \E patterns_arg \in StoredLists : save_patterns(patterns_arg, TRUE, TRUE)

PersistSpec == Init /\ [][PersistNext]_vars

(***************************************************************************)
(* The application context: contexts obtained, reset, initialized and      *)
(* loaded; and the same with the components that obtain a context, the CLI *)
(* commands and the MCP server                                             *)
(***************************************************************************)
\* what is at the path of the patterns file: no file; the record ("1", "a");
\* the record ("1", "a") followed by null
AppFiles ==
    {[exists |-> FALSE, text |-> NotJson],
     [exists |-> TRUE, text |-> JsonArray(<<RecordDoc(<<49>>, <<97>>)>>)],
     [exists |-> TRUE, text |-> JsonArray(<<RecordDoc(<<49>>, <<97>>), JsonNull>>)]}

AppNext ==
    \/ get_instance
    \/ reset_instance
    \/ \E ctx \in DOMAIN contexts, auto_load \in BOOLEAN, file \in AppFiles :
           initialize(ctx, auto_load, file)
    \/ \E ctx \in DOMAIN contexts, file \in AppFiles : AppContext_load_patterns(ctx, file)

AppSpec == Init /\ [][AppNext]_vars

ComponentsNext ==
    \/ get_instance
    \/ reset_instance
    \/ \E ctx \in DOMAIN contexts, auto_load \in BOOLEAN, file \in AppFiles :
           initialize(ctx, auto_load, file)
    \/ \E file \in AppFiles : get_context(file)
    \/ \E file \in AppFiles : PatternSphereMCPServer(file)

ComponentsSpec == Init /\ [][ComponentsNext]_vars

(***************************************************************************)
(* Serving: run over an input of requests and of lines that are none       *)
(***************************************************************************)
MaxLines == 3

Request(id, method, params) ==
    JsonObject(<< <<"jsonrpc", JsonString("2.0")>>, <<"id", JsonString(id)>>,
                  <<"method", JsonString(method)>>, <<"params", params>> >>)

\* requests with the ids "1" and "2": initialize, tools/list, an unknown
\* method, tools/call of list_categories, of get_pattern without its argument
\* and with params null; a notification, which has no id; and the lines that
\* are no request: a text that is not JSON, and the JSON array []
McpLines ==
    {Request(<<49>>, "initialize", JsonObject(<< >>)),
     Request(<<50>>, "tools/list", JsonObject(<< >>)),
     Request(<<49>>, "resources/list", JsonObject(<< >>)),
     Request(<<50>>, "tools/call",
             JsonObject(<< <<"name", JsonString("list_categories")>> >>)),
     Request(<<49>>, "tools/call",
             JsonObject(<< <<"name", JsonString("get_pattern")>>,
                           <<"arguments", JsonObject(<< >>)>> >>)),
     Request(<<50>>, "tools/call", JsonNull),
     JsonObject(<< <<"jsonrpc", JsonString("2.0")>>,
                   <<"method", JsonString("notifications/initialized")>> >>),
     NotJson,
     JsonArray(<< >>)}

McpInputs == UNION {[1..n -> McpLines] : n \in 0..MaxLines}

\* run is called on an input
McpSpecInit ==
    /\ patterns = << >>
    /\ name_index = << >>
    /\ category_index = << >>
    /\ ret = Call("__init__", << >>, "", None)
    /\ pre = <<<< >>, << >>, << >>>>
    /\ self_storage = None
    /\ StorageInit
    /\ AppInit
    /\ stdin \in McpInputs
    /\ line_no = 0
    /\ stdout = << >>
    /\ request = None
    /\ running = "running"

McpNext ==
    \/ run_line
    \/ run_return

McpSpec == McpSpecInit /\ [][McpNext]_vars

(***************************************************************************)
(* Covering: the unranked search asked for a word of a field, a part of a  *)
(* word, a category name, two words and a word that is nowhere             *)
(***************************************************************************)
CoverPatterns ==
    {Pattern(raw) : raw \in
        {r \in [id : BrowseIds, name : {<<97>>, <<66, 32, 98>>}, intent : {<<99>>},
                problem : {<<99>>}, solution : {<<97, 98>>}, category : Categories,
                tags : {<< >>, <<<<66>>>>},
                related_patterns : {<< >>}, source_name : {<<115>>}] :
            PatternValid(r)}}

\* "b", "Ab", "z", and "a b", which is two terms
CoverQueries == {<<98>>, <<65, 98>>, <<122>>, <<97, 32, 98>>}
\* None, "", "Ab"
CoverCategoryArgs == {None, Some(<< >>), Some(<<65, 98>>)}
\* None, ["B", "z"]
CoverTagArgs == {None, Some(<<<<66>>, <<122>>>>)}

CoverNext ==
    \/ \E p \in CoverPatterns : add_pattern(p)
    \/ clear
    \/ \E query \in CoverQueries, category \in CoverCategoryArgs, tags \in CoverTagArgs :
           Call_search_patterns(query, category, tags)

CoverSpec == Init /\ [][CoverNext]_vars

(***************************************************************************)
(* Ordering: the same patterns added to a new repository in every order    *)
(***************************************************************************)
\* "1" is named "a", "2" is named "A", "3" is named "b"
OrderNames == {<<<<49>>, <<97>>>>, <<<<50>>, <<65>>>>, <<<<51>>, <<98>>>>}

OrderPatterns ==
    {Pattern(raw) : raw \in
        {r \in [id : {n[1] : n \in OrderNames}, name : {n[2] : n \in OrderNames},
                intent : {<<99>>}, problem : {<<99>>},
                solution : {<<99>>}, category : Categories, tags : {<< >>, <<<<65>>>>},
                related_patterns : {<< >>}, source_name : {<<115>>}] :
            <<r.id, r.name>> \in OrderNames /\ PatternValid(r)}}

\* the orders of n things
Orders(n) == {order \in [1..n -> 1..n] : \A i, j \in 1..n : order[i] = order[j] => i = j}

\* "", "a", "c"
OrderQueries == {<< >>, <<97>>, <<99>>}
\* None, "b"
OrderCategoryArgs == {None, Some(<<98>>)}
\* None, ["A"]
OrderTagArgs == {None, Some(<<<<65>>>>)}

\* list_all_patterns(), get_patterns_by_category(c) and search(...) of the
\* repository at hand
Listings ==
    [list_all_patterns |-> list_all_patterns,
     get_patterns_by_category |-> [c \in Categories |-> get_patterns_by_category(c)],
     search |-> [a \in OrderQueries \X OrderCategoryArgs \X OrderTagArgs |->
                    search(a[1], a[2], a[3])]]

OrderNext ==
    \/ \E p \in OrderPatterns : add_pattern(p)
    \/ \E order \in Orders(Len(patterns)) :
           add_patterns_in_order(order, [lists |-> Listings,
                                         categories |-> get_all_categories])

OrderSpec == Init /\ [][OrderNext]_vars

(***************************************************************************)
(* Scoring: one stored pattern, its fields drawn from small sets, scored   *)
(* against a query                                                         *)
(***************************************************************************)
ScorePatterns ==
    {Pattern(raw) : raw \in
        {r \in [id : {<<49>>},
                name : {<<65, 32, 98>>, <<97, 98>>},          \* "A b", "ab"
                intent : {<<97>>, <<98, 97>>},                \* "a", "ba"
                problem : {<<98>>, <<97, 98, 32, 97>>},       \* "b", "ab a"
                solution : {<<32>>, <<97, 32, 66>>},          \* " ", "a B"
                category : Categories,
                tags : RawTagLists,
                related_patterns : {<< >>}, source_name : {<<115>>}] :
            PatternValid(r)}}

\* "a", "A b", "ab", "a a", " ", "z", "" 
ScoreQueries ==
    {<<97>>, <<65, 32, 98>>, <<97, 98>>, <<97, 32, 97>>, <<32>>, <<122>>, << >>}

\* the repository after __init__ and one add_pattern(p)
ScoreInit ==
    \E p \in ScorePatterns :
        /\ patterns = <<<<p.id, p>>>>
        /\ name_index = <<<<p.name, p.id>>>>
        /\ category_index = <<<<p.category, <<p.id>>>>>>
        /\ ret = Call("add_pattern", <<p>>, "", None)
        /\ pre = <<<< >>, << >>, << >>>>
        /\ self_storage = None
        /\ StorageInit
        /\ AppInit
        /\ McpInit

ScoreNext ==
    \/ \E query \in ScoreQueries : Call_search(query, None, None)
    \/ \E p \in Stored, i \in DOMAIN FIELD_WEIGHTS, query \in ScoreQueries :
           Call_score_field(p, FIELD_WEIGHTS[i][1], _normalize_query(query))

ScoreSpec == ScoreInit /\ [][ScoreNext]_vars

(***************************************************************************)
(* Properties of the repository                                            *)
(***************************************************************************)
AscendingByName(list) ==
    \A i, j \in DOMAIN list : i < j => StrLess(list[i].name, list[j].name)
RECURSIVE Sum(_)
Sum(list) == IF list = << >> THEN 0 ELSE Head(list) + Sum(Tail(list))

\* C1: add_pattern with a pattern whose id is already stored, or whose name is
\* already stored under a different id, raises RepositoryError and leaves the
\* pattern store, the name index, the category index and count() as they were
\* before the call.
C1_AddConflictIsAllOrNothing ==
    ret.op = "add_pattern" =>
        LET p == ret.args[1]
            conflict == \E q \in Held(pre[1]) :
                            q.id = p.id \/ (q.name = p.name /\ q.id # p.id)
        IN  conflict =>
                /\ ret.raised = "RepositoryError"
                /\ patterns = pre[1]
                /\ name_index = pre[2]
                /\ category_index = pre[3]
                /\ count = Len(pre[1])

\* the second add of a name under another id was refused and count() is still 1
C1_Witness ==
    /\ ret.op = "add_pattern"
    /\ ret.raised = "RepositoryError"
    /\ count = 1
    /\ \E q \in Stored : q.name = ret.args[1].name /\ q.id # ret.args[1].id

\* C2: for every pattern p held by the repository, get_pattern_by_id(p.id)
\* returns p, get_pattern_by_name(p.name) returns p, and p is in
\* get_patterns_by_category(p.category).
C2_IndexConsistency ==
    \A p \in Stored :
        /\ get_pattern_by_id(p.id) = Some(p)
        /\ get_pattern_by_name(p.name) = Some(p)
        /\ InList(p, get_patterns_by_category(p.category))

\* C3: no two patterns held by the repository share an id and no two share a
\* name (compared case-sensitively); the name index maps each stored name to
\* exactly one stored id.
C3_Uniqueness ==
    /\ \A i, j \in DOMAIN patterns :
           i # j => /\ patterns[i][2].id # patterns[j][2].id
                    /\ patterns[i][2].name # patterns[j][2].name
    /\ \A i \in DOMAIN patterns : patterns[i][1] = patterns[i][2].id
    /\ \A p \in Stored :
           /\ Cardinality({k \in DOMAIN name_index : name_index[k][1] = p.name}) = 1
           /\ DictGet(name_index, p.name, None) = p.id
    /\ \A k \in DOMAIN name_index :
           \E p \in Stored : p.name = name_index[k][1] /\ p.id = name_index[k][2]

\* "a" and "A" are both stored, and an add has just been refused
C3_Witness ==
    /\ ret.op = "add_pattern"
    /\ ret.raised = "RepositoryError"
    /\ \E p, q \in Stored : p.name = <<97>> /\ q.name = <<65>>

\* C4: clear() succeeds and empties the store and all indexes together:
\* afterwards count() == 0, list_all_patterns() == [], get_all_categories()
\* == {}, every get_pattern_by_id and get_pattern_by_name returns None, and an
\* add_pattern that follows it (of a pattern stored before or of any other)
\* succeeds.
C4_ClearEmptiesAll ==
    /\ [](ret.op = "clear" =>
            /\ ret.raised = ""
            /\ count = 0
            /\ list_all_patterns = << >>
            /\ get_all_categories = << >>
            /\ \A pattern_id \in IdArgs : get_pattern_by_id(pattern_id) = None
            /\ \A name \in NameArgs : get_pattern_by_name(name) = None
            /\ \A category \in CategoryArgs : get_patterns_by_category(category) = << >>)
    /\ [][(ret.op = "clear" /\ ret'.op = "add_pattern") =>
            /\ ret'.raised = ""
            /\ Held(patterns') = {ret'.args[1]}
            /\ count' = 1]_vars

\* a clear() has just removed three patterns of two categories, and one of them
\* can be added again
C4_Witness ==
    /\ ret.op = "clear"
    /\ Len(pre[1]) = 3
    /\ Len(pre[3]) = 2
    /\ \E p \in Held(pre[1]) : ENABLED (add_pattern(p) /\ ret'.raised = "")

\* C5: list_all_patterns() returns every stored pattern exactly once, ordered
\* by name ascending in code point order; two calls in a row return the same
\* sequence.
C5_ListAllSortedByName ==
    /\ [](ret.op = "list_all_patterns" =>
            /\ Range(ret.result) = Stored
            /\ Len(ret.result) = Cardinality(Stored)
            /\ AscendingByName(ret.result))
    /\ [][(ret.op = "list_all_patterns" /\ ret'.op = "list_all_patterns") =>
            ret'.result = ret.result]_vars

\* three patterns were listed, in an order that is neither the insertion order
\* nor the case-insensitive order ("B b" before "a")
C5_Witness ==
    /\ ret.op = "list_all_patterns"
    /\ Len(ret.result) = 3
    /\ ret.result # DictValues(patterns)
    /\ ret.result[2].name = <<66, 32, 98>>
    /\ ret.result[3].name = <<97>>

\* C6: get_patterns_by_category(c) returns exactly the stored patterns whose
\* category equals c, each once, sorted by name ascending; for a category with
\* no stored patterns it returns an empty list and raises nothing.
C6_ByCategoryExact ==
    ret.op = "get_patterns_by_category" =>
        LET c == ret.args[1]
            members == {p \in Stored : p.category = c}
        IN  /\ ret.raised = ""
            /\ Range(ret.result) = members
            /\ Len(ret.result) = Cardinality(members)
            /\ AscendingByName(ret.result)

\* two of three stored patterns were returned, not in the order they were added
C6_Witness ==
    /\ ret.op = "get_patterns_by_category"
    /\ count = 3
    /\ Len(ret.result) = 2
    /\ \E i, j \in DOMAIN patterns :
           i < j /\ patterns[i][2] = ret.result[2] /\ patterns[j][2] = ret.result[1]

\* C7: get_all_categories() maps exactly the categories that have at least one
\* stored pattern to the number of stored patterns in that category, every
\* value > 0; its values sum to count() and count() == len(list_all_patterns()).
C7_CategoryCountsLive ==
    ret.op = "get_all_categories" =>
        LET items == ret.result
        IN  /\ \A i, j \in DOMAIN items : i # j => items[i][1] # items[j][1]
            /\ {items[i][1] : i \in DOMAIN items} = {p.category : p \in Stored}
            /\ \A i \in DOMAIN items :
                   /\ items[i][2] = Cardinality({p \in Stored : p.category = items[i][1]})
                   /\ items[i][2] > 0
            /\ Sum([i \in DOMAIN items |-> items[i][2]]) = count
            /\ count = Len(list_all_patterns)

\* the counts of two categories were returned, one of them holding two patterns
C7_Witness ==
    /\ ret.op = "get_all_categories"
    /\ Len(ret.result) = 2
    /\ \E i \in DOMAIN ret.result : ret.result[i][2] = 2

(***************************************************************************)
(* Properties of the search engine                                         *)
(***************************************************************************)
ResultPatterns(results) == [i \in DOMAIN results |-> results[i].pattern]

\* C8: for every category string C, search("", category=C) returns exactly
\* the patterns returned by get_patterns_by_category(C), each with score 0.0,
\* sorted by name.
C8_EmptyQueryBrowseLaw ==
    (ret.op = "search" /\ ret.args[1] = << >> /\ ret.args[2] # None /\ ret.args[3] = None) =>
        /\ ResultPatterns(ret.result) = get_patterns_by_category(ret.args[2][1])
        /\ \A i \in DOMAIN ret.result : ret.result[i].score = 0
        /\ AscendingByName(ResultPatterns(ret.result))

\* C9: a query that is empty or only whitespace returns every pattern of the
\* filtered candidate set (the stored patterns of the category, when a
\* non-empty category is given, that have one of the lower-cased tags, when a
\* non-empty tag list is given) and only those, each with score 0.0 and empty
\* matched_fields, ordered by name ascending; the result for a whitespace-only
\* query equals the result for the empty query with the same filters.
C9_BlankQueryBypassesScoring ==
    (ret.op = "search" /\ \A i \in DOMAIN ret.args[1] : IsSpace(ret.args[1][i])) =>
        LET category == ret.args[2]
            tags == ret.args[3]
            candidates ==
                {p \in Stored :
                    /\ (category # None /\ category[1] # << >>) => p.category = category[1]
                    /\ (tags # None /\ tags[1] # << >>) =>
                           \E i \in DOMAIN tags[1] : Lower(tags[1][i]) \in Range(p.tags)}
        IN  /\ Range(ResultPatterns(ret.result)) = candidates
            /\ Len(ret.result) = Cardinality(candidates)
            /\ \A i \in DOMAIN ret.result :
                   ret.result[i].score = 0 /\ ret.result[i].matched_fields = {}
            /\ AscendingByName(ResultPatterns(ret.result))
            /\ ret.result = search(<< >>, category, tags)

\* a search for " " in category "Ab" with tags ["A"] kept one of two stored patterns
C9_Witness ==
    /\ ret.op = "search"
    /\ ret.args = <<<<32>>, Some(<<65, 98>>), Some(<<<<65>>>>)>>
    /\ count = 2
    /\ Len(ret.result) = 1

\* the raw score the claim gives a field, doubled: per term 1.0 for a whole
\* word of the lower-cased field text, else 0.5 for a substring, else 0.0
ClaimedRaw(p, field_name, terms) ==
    LET text == IF field_name = "tags" THEN Lower(Join(<<32>>, p.tags))
                ELSE Lower(p[field_name])
        words == Range(Split(text))
    IN  Sum([i \in DOMAIN terms |->
                IF terms[i] \in words THEN 2
                ELSE IF Contains(text, terms[i]) THEN 1 ELSE 0])

\* the score the claim gives a pattern, times four: name 5.0, tags 4.0,
\* intent 3.0, category 2.5, problem 2.0, solution 1.5
ClaimedScore(p, query) ==
    LET words == Split(query)
        terms == [i \in DOMAIN words |-> Lower(words[i])]
    IN  ClaimedRaw(p, "name", terms) * 10
        + ClaimedRaw(p, "tags", terms) * 8
        + ClaimedRaw(p, "intent", terms) * 6
        + ClaimedRaw(p, "category", terms) * 5
        + ClaimedRaw(p, "problem", terms) * 4
        + ClaimedRaw(p, "solution", terms) * 3

\* C10: the raw score of a field is the sum over the query's terms of 1.0 for
\* a whole-word match, else 0.5 for a substring match, else 0.0; a result's
\* score for a non-empty query is the sum over the six fields of raw score
\* times weight.
C10_WeightedScoring ==
    /\ ret.op = "_score_field" =>
           ret.result = ClaimedRaw(ret.args[1], ret.args[2], ret.args[3])
    /\ (ret.op = "search" /\ ret.args[1] # << >>) =>
           \A i \in DOMAIN ret.result :
               ret.result[i].score = ClaimedScore(ret.result[i].pattern, ret.args[1])

\* the query "a a" scored a pattern in all six fields, by whole words in some
\* and by substrings in others
C10_Witness ==
    /\ ret.op = "search"
    /\ ret.args[1] = <<97, 32, 97>>
    /\ \E i \in DOMAIN ret.result :
           /\ ret.result[i].pattern.name = <<97, 98>>
           /\ ret.result[i].pattern.intent = <<97>>
           /\ Cardinality(ret.result[i].matched_fields) = 6
           /\ ret.result[i].score = 2 * 10 + 4 * 8 + 4 * 6 + 2 * 5 + 4 * 4 + 4 * 3

\* the six weighted fields
WeightedFields == {"name", "intent", "problem", "solution", "tags", "category"}

\* C11: in every result of a non-empty query, matched_fields is the set of the
\* weighted fields whose raw field score for that pattern and query is
\* positive, a subset of the six field names.
C11_MatchedFieldsExact ==
    (ret.op = "search" /\ ret.args[1] # << >>) =>
        \A i \in DOMAIN ret.result :
            LET r == ret.result[i]
                terms == _normalize_query(ret.args[1])
            IN  /\ r.matched_fields \subseteq WeightedFields
                /\ r.matched_fields =
                       {f \in WeightedFields : ClaimedRaw(r.pattern, f, terms) > 0}

\* the query "ab" matched the name and the category of a pattern and none of
\* its other four fields
C11_Witness ==
    /\ ret.op = "search"
    /\ ret.args[1] = <<97, 98>>
    /\ \E i \in DOMAIN ret.result :
           /\ ret.result[i].matched_fields = {"name", "category"}
           /\ ret.result[i].pattern.tags = << >>
           /\ ret.result[i].pattern.intent = <<97>>

(***************************************************************************)
(* Properties of the ranked search                                         *)
(***************************************************************************)
\* the stored patterns a search with these filters scores: those of the
\* category when one is given, having one of the tags when tags are given
Candidates(category, tags) ==
    {p \in Stored :
        /\ TruthyOpt(category) => p.category = category[1]
        /\ TruthyOpt(tags) =>
               \E i \in DOMAIN tags[1] : InList(Lower(tags[1][i]), p.tags)}

\* a term of the query is a substring of one of the six weighted fields of p
TermOccurs(p, query) ==
    LET words == Split(query)
    IN  \E i \in DOMAIN words, f \in WeightedFields :
            Contains(IF f = "tags" THEN Lower(Join(<<32>>, p.tags)) ELSE Lower(p[f]),
                     Lower(words[i]))

\* C12: for a query that is not blank, a candidate is in the results exactly
\* when its score is positive: every result has a positive score, every
\* candidate of positive score is a result, and a query no term of which
\* occurs in any weighted field of any stored pattern has no result.
C12_ResultsAreThePositiveScores ==
    (ret.op = "search" /\ ~NoQuery(ret.args[1])) =>
        /\ \A i \in DOMAIN ret.result :
               /\ ret.result[i].score > 0
               /\ ret.result[i].score = ClaimedScore(ret.result[i].pattern, ret.args[1])
        /\ Range(ResultPatterns(ret.result)) =
               {p \in Candidates(ret.args[2], ret.args[3]) :
                   ClaimedScore(p, ret.args[1]) > 0}
        /\ (\A p \in Stored : ~TermOccurs(p, ret.args[1])) => ret.result = << >>

\* the query "A" returned one of the two stored patterns and left out the
\* one that scores nothing
C12_Witness ==
    /\ ret.op = "search"
    /\ ret.args = <<<<65>>, None, None>>
    /\ Cardinality(Candidates(ret.args[2], ret.args[3])) = 2
    /\ Len(ret.result) = 1
    /\ \E p \in Stored : p.name = <<98>> /\ p.category = <<98>> /\ ClaimedScore(p, <<65>>) = 0

\* C13: the results of a query that is not blank are in the order of score
\* descending, then name ascending: of two consecutive results the first has
\* the strictly higher score, or the same score and the strictly smaller name.
C13_RankOrder ==
    (ret.op = "search" /\ ~NoQuery(ret.args[1])) =>
        \A i \in 1..(Len(ret.result) - 1) :
            \/ ret.result[i].score > ret.result[i + 1].score
            \/ /\ ret.result[i].score = ret.result[i + 1].score
               /\ StrLess(ret.result[i].pattern.name, ret.result[i + 1].pattern.name)

\* two results of different scores, the higher first although its name "b"
\* is the greater
C13_Witness ==
    /\ ret.op = "search"
    /\ ret.args[1] = <<98>>
    /\ Len(ret.result) = 2
    /\ ret.result[1].score > ret.result[2].score
    /\ ret.result[1].pattern.name = <<98>>
    /\ ret.result[2].pattern.name = <<65>>

\* two results of the same score, "A" before "a"
C13_TieWitness ==
    /\ ret.op = "search"
    /\ ret.args[1] = <<65>>
    /\ Len(ret.result) = 2
    /\ ret.result[1].score = ret.result[2].score
    /\ ret.result[1].pattern.name = <<65>>
    /\ ret.result[2].pattern.name = <<97>>

\* C14: given a non-empty tags list, search keeps exactly the candidates that
\* have at least one tag equal to the lower-cased form of a requested tag (the
\* union over the requested tags), so a tag requested in upper case gives the
\* result of the same tag in lower case.
C14_TagFilterIsCaseInsensitiveOr ==
    (ret.op = "search" /\ ret.args[3] # None /\ ret.args[3] # Some(<< >>)) =>
        LET query == ret.args[1]
            tags == ret.args[3][1]
            kept == {p \in Candidates(ret.args[2], None) :
                        \E i \in DOMAIN tags : InList(Lower(tags[i]), p.tags)}
        IN  /\ Range(ResultPatterns(ret.result)) =
                   {p \in kept : NoQuery(query) \/ ClaimedScore(p, query) > 0}
            /\ ret.result =
                   search(query, ret.args[2], Some([i \in DOMAIN tags |-> Lower(tags[i])]))

\* the tags ["a", "B"] kept both a pattern tagged only "a" and a pattern
\* tagged "ab" and "b", neither of which has both requested tags
C14_Witness ==
    /\ ret.op = "search"
    /\ ret.args = <<<< >>, None, Some(<<<<97>>, <<66>>>>)>>
    /\ Len(ret.result) = 2
    /\ ret.result[1].pattern.tags = <<<<97>>>>
    /\ ret.result[2].pattern.tags = <<<<97, 98>>, <<98>>>>

\* the query followed by a space and further terms
Extended(query, extra) == query \o <<32>> \o extra

\* the further terms a query is extended with: "a", "A b", "ab", "a a", "z"
ExtraTerms == {q \in ScoreQueries : _normalize_query(q) # << >>}

\* the score search gives a stored pattern for a query that has terms
Score(p, query) == _score_pattern(p, _normalize_query(query))[1]

\* C15 as stated: for every stored pattern and every query Q, the score for Q
\* followed by extra terms is at least the score for Q, and a pattern
\* returned for Q is returned for the extended query as well.
C15_ExtendingNeverLosesAResult ==
    ret.op = "search" =>
        \A extra \in ExtraTerms :
            LET extended == Extended(ret.args[1], extra)
            IN  /\ \A p \in Stored : Score(p, extended) >= Score(p, ret.args[1])
                /\ Range(ResultPatterns(ret.result)) \subseteq
                       Range(ResultPatterns(search(extended, ret.args[2], ret.args[3])))

\* C15, amended: for every stored pattern and every query Q, the score for Q
\* followed by extra terms is at least the score for Q; when Q is not blank, a
\* pattern returned for Q is returned for the extended query as well, with a
\* score that is not lower.
C15_ScoreMonotonicity ==
    ret.op = "search" =>
        \A extra \in ExtraTerms :
            LET extended == Extended(ret.args[1], extra)
                again == search(extended, ret.args[2], ret.args[3])
            IN  /\ \A p \in Stored : Score(p, extended) >= Score(p, ret.args[1])
                /\ ~NoQuery(ret.args[1]) =>
                       \A i \in DOMAIN ret.result :
                           \E j \in DOMAIN again :
                               /\ again[j].pattern = ret.result[i].pattern
                               /\ again[j].score >= ret.result[i].score

\* the query "a" returned the stored pattern; extended by "z" its score is
\* the same, extended by "A b" it is higher
C15_Witness ==
    /\ ret.op = "search"
    /\ ret.args[1] = <<97>>
    /\ Len(ret.result) = 1
    /\ Score(ret.result[1].pattern, Extended(<<97>>, <<122>>)) = ret.result[1].score
    /\ Score(ret.result[1].pattern, Extended(<<97>>, <<65, 32, 98>>)) > ret.result[1].score

(***************************************************************************)
(* Properties of the unranked search                                       *)
(***************************************************************************)
RECURSIVE Concat(_)
Concat(parts) == IF parts = << >> THEN << >> ELSE Head(parts) \o Concat(Tail(parts))

\* the case-folded concatenation of name, intent, problem, solution and tags
ConcatenatedText(p) ==
    Lower(p.name) \o Lower(p.intent) \o Lower(p.problem) \o Lower(p.solution)
        \o Lower(Concat(p.tags))

\* C17: search_patterns(query, category, tags) keeps the patterns of the
\* category (exact match) when one is given, of these the patterns that have
\* any of the listed tags, case-insensitively, when tags are listed, and of
\* these, when the query is not empty, the patterns whose case-folded
\* concatenation of name, intent, problem, solution and tags contains the
\* case-folded query; the result is sorted by name ascending.
C17_UnrankedSearch ==
    ret.op = "search_patterns" =>
        LET query == ret.args[1]
            category == ret.args[2]
            tags == ret.args[3]
        IN  /\ Range(ret.result) =
                   {p \in Stored :
                       /\ category # None => p.category = category[1]
                       /\ TruthyOpt(tags) =>
                              \E i \in DOMAIN tags[1] : InList(Lower(tags[1][i]), p.tags)
                       /\ query # << >> => Contains(ConcatenatedText(p), Lower(query))}
            /\ AscendingByName(ret.result)

(***************************************************************************)
(* Frame of the read operations                                            *)
(***************************************************************************)
ReadOps ==
    {"get_pattern_by_id", "get_pattern_by_name", "list_all_patterns",
     "get_patterns_by_category", "get_all_categories", "search_patterns", "count",
     "search"}

\* the category a call was given, if it was given one
CategoryAsked ==
    IF ret.op = "get_patterns_by_category" THEN Some(ret.args[1])
    ELSE IF ret.op \in {"search", "search_patterns"} THEN ret.args[2]
    ELSE None

\* C18: search and every query of the repository leave the pattern store, the
\* name index and the category index as they were before the call; a category
\* that has no patterns is not among get_all_categories() after it was asked
\* for; only add_pattern and clear change the state of the repository.
C18_ReadsAreReadOnly ==
    /\ ret.op \in ReadOps =>
           /\ patterns = pre[1]
           /\ name_index = pre[2]
           /\ category_index = pre[3]
           /\ (CategoryAsked # None /\ \A p \in Stored : p.category # CategoryAsked[1]) =>
                  ~DictHas(get_all_categories, CategoryAsked[1])
    /\ repo # pre => ret.op \in {"add_pattern", "clear"}

\* a search under the category "z", which no stored pattern has, with a
\* pattern stored
C18_Witness ==
    /\ ret.op = "search"
    /\ ret.args[2] = Some(<<122>>)
    /\ count = 1
    /\ ret.result = << >>
    /\ get_all_categories = <<<<<<98>>, 1>>>>

(***************************************************************************)
(* Properties of the loader                                                *)
(***************************************************************************)
\* the last call was a load of a list of records
LoadedAList ==
    \/ ret.op = "load_from_dict" /\ ret.args[1].t = "list"
    \/ /\ ret.op = "load_from_file"
       /\ ret.args[1].exists
       /\ ret.args[1].text.j = "array"

\* the records of that list
RecordsGiven ==
    IF ret.op = "load_from_dict" THEN ret.args[1].v ELSE JsonLoad(ret.args[1].text).v

\* C19: for any list of records given to load_from_dict or read by
\* load_from_file, a bad record does not abort the batch: the call returns
\* stats with loaded_successfully + failed_patterns = total_patterns = the
\* number of records and len(errors) = failed_patterns, count() has grown by
\* loaded_successfully, and every record that validates is stored or collides
\* with a stored pattern, also after a record that failed.
C19_LoaderContinuesOnError ==
    LoadedAList =>
        /\ ret.raised = ""
        /\ ret.result.total_patterns = Len(RecordsGiven)
        /\ ret.result.loaded_successfully + ret.result.failed_patterns
               = ret.result.total_patterns
        /\ Len(ret.result.errors) = ret.result.failed_patterns
        /\ count = Len(pre[1]) + ret.result.loaded_successfully
        /\ \A i \in DOMAIN RecordsGiven :
               ~ValidationError(RecordsGiven[i]) =>
                   \E p \in Stored :
                       \/ p.id = from_dict(RecordsGiven[i]).id
                       \/ p.name = from_dict(RecordsGiven[i]).name

(***************************************************************************)
(* Properties of the file storage                                          *)
(***************************************************************************)
\* C20: load_patterns() returns the list given to the most recent
\* save_patterns that succeeded since the storage was last cleared, and the
\* empty list when there is none; clear() raises nothing, also when there is
\* no file, and leaves exists() false.
C20_LastSaveWins ==
    /\ ret.op = "load_patterns" =>
           /\ ret.raised = ""
           /\ ret.result = IF last_save = None THEN PyList(<< >>) ELSE last_save[1]
    /\ ret.op = "exists" => ret.result = (last_save # None)
    /\ ret.op = "storage_clear" => (ret.raised = "" /\ ~exists /\ last_save = None)
    /\ (ret.op = "save_patterns" /\ ret.raised = "") =>
           (exists /\ last_save = Some(ret.args[1]))

\* a load that returned the one-element list of the last save that succeeded
C20_Witness ==
    /\ ret.op = "load_patterns"
    /\ ret.result = PyList(<<PyDict(<< <<"x", PyNone>> >>)>>)
    /\ last_save = Some(ret.result)

\* a repository has just been constructed over the storage that a
\* save_to_storage wrote last
ReloadedFromSave ==
    /\ ret.op = "InMemoryPatternRepository"
    /\ ret.args[1] # None
    /\ saved_repo # None

\* C21: after save_to_storage succeeds, a new repository constructed over the
\* same storage holds exactly the patterns of the saving repository at save
\* time: the same count(), and each of those patterns, with its id, name,
\* category, tags and related_patterns, is returned by get_pattern_by_id, by
\* get_pattern_by_name and in get_patterns_by_category; save and load cycles
\* with adds between them lose and duplicate nothing.
C21_PersistenceRoundTrip ==
    ReloadedFromSave =>
        /\ ret.raised = ""
        /\ count = Len(saved_repo[1][1])
        /\ \A p \in Held(saved_repo[1][1]) :
               /\ get_pattern_by_id(p.id) = Some(p)
               /\ get_pattern_by_name(p.name) = Some(p)
               /\ InList(p, get_patterns_by_category(p.category))

\* the round trip on the dicts themselves: the patterns and both indexes of
\* the new repository are those of the saving repository, in the same order
C21_SameDicts ==
    ReloadedFromSave => (ret.raised = "" /\ repo = saved_repo[1])

\* a second save and load cycle, with a pattern added after the first load
C21_SameDictsWitness ==
    /\ ReloadedFromSave
    /\ Len(patterns) = 2
    /\ Len(pre[1]) = 2
    /\ \E p \in Stored : p.id = << >> /\ p.related_patterns # << >>

\* the records of a list that validate and conflict in id or name with no
\* record kept before them, from record i on
RECURSIVE KeptRecords(_, _, _)
KeptRecords(records, i, kept) ==
    IF i > Len(records) THEN kept
    ELSE IF /\ ~ValidationError(records[i])
            /\ \A j \in DOMAIN kept :
                   /\ from_dict(kept[j]).id # from_dict(records[i]).id
                   /\ from_dict(kept[j]).name # from_dict(records[i]).name
    THEN KeptRecords(records, i + 1, Append(kept, records[i]))
    ELSE KeptRecords(records, i + 1, kept)

\* C26: constructing a repository over a storage whose load_patterns returns
\* a list never raises for the records of the list: the records that fail
\* validation or repeat an id or a name are skipped, the others are added in
\* order and count() is their number; a StorageError of load_patterns is
\* raised as RepositoryError; save_to_storage without a storage raises
\* RepositoryError and leaves the repository as it was.
C26_LoadSkipsBadRecords ==
    /\ (ret.op = "InMemoryPatternRepository" /\ ret.args[1] # None) =>
           IF LoadOutcome.raised # ""
           THEN ret.raised = "RepositoryError"
           ELSE LET kept == KeptRecords(LoadOutcome.result.v, 1, << >>)
                IN  /\ ret.raised = ""
                    /\ DictValues(patterns) = [i \in DOMAIN kept |-> from_dict(kept[i])]
                    /\ count = Len(kept)
    /\ (ret.op = "save_to_storage" /\ self_storage = None) =>
           (ret.raised = "RepositoryError" /\ repo = pre)

\* the claim for the storage lists whose records are all dicts
C26_DictRecordsOnly ==
    (\A i \in DOMAIN LoadOutcome.result.v : LoadOutcome.result.v[i].t = "dict")
        => C26_LoadSkipsBadRecords

\* a list of a record that fails validation and a valid one was loaded
C26_DictRecordsWitness ==
    /\ ret.op = "InMemoryPatternRepository" /\ ret.args[1] # None
    /\ Len(LoadOutcome.result.v) = 2
    /\ \A i \in DOMAIN LoadOutcome.result.v : LoadOutcome.result.v[i].t = "dict"
    /\ ValidationError(LoadOutcome.result.v[1])
    /\ count = 1

\* C22: in every reachable state, for every AppContext whose is_initialized
\* is false, whether the calls made on it returned or raised: the repository
\* and search_engine properties and load_patterns() raise RuntimeError,
\* get_pattern_count() is 0, get_categories() is [] and
\* get_pattern_count_by_category() is {}.
C22_UninitializedContext ==
    \A ctx \in DOMAIN contexts :
        ~is_initialized(ctx) =>
            /\ repository(ctx).raised = "RuntimeError"
            /\ search_engine(ctx).raised = "RuntimeError"
            /\ \A file \in AppFiles :
                   LoadPatterns(ctx, file, contexts, repositories).raised = "RuntimeError"
            /\ get_pattern_count(ctx) = 0
            /\ get_categories(ctx) = << >>
            /\ get_pattern_count_by_category(ctx) = << >>

\* C23: between two reset_instance calls every get_instance() returns the
\* same object and every component that obtains a context (the CLI commands
\* by get_context, the MCP server in its constructor) uses that object; the
\* first get_instance after a reset_instance returns an object that is none
\* of those obtained before and is not initialized.
C23_Singleton ==
    /\ [](Cardinality(obtained) <= 1 /\ obtained \cap retired = {})
    /\ [][(_instance = None /\ ret'.op = "get_instance") =>
              (ret'.result \notin retired /\ ~contexts'[ret'.result]._initialized)]_vars

\* the claim for get_instance alone: the objects it returns
C23_GetInstanceOnly ==
    [][ret'.op = "get_instance" =>
           /\ _instance # None => ret'.result = _instance[1]
           /\ _instance = None =>
                  (ret'.result \notin (retired \cup obtained)
                      /\ ~contexts'[ret'.result]._initialized)]_vars

\* C24: once is_initialized is true, initialize() with any auto_load is a
\* no-op: the context keeps its repository object, the patterns stored in it,
\* its search engine and its load_stats; and in every initialized context
\* search_engine.repository is the object the repository property returns.
C24_InitializeIdempotent ==
    /\ [](\A ctx \in DOMAIN contexts :
              is_initialized(ctx) =>
                  /\ repository(ctx).raised = ""
                  /\ search_engine(ctx).raised = ""
                  /\ search_engine(ctx).result.repository = repository(ctx).result)
    /\ [][(ret'.op = "initialize" /\ is_initialized(ret'.args[1])) =>
              (ret'.raised = "" /\ contexts' = contexts /\ repositories' = repositories)]_vars

\* initialize(auto_load=False) returned on a context that holds patterns: it
\* was initialized and loaded before the call
C24_Witness ==
    /\ ret.op = "initialize" /\ ret.args[2] = FALSE
    /\ is_initialized(ret.args[1])
    /\ get_pattern_count(ret.args[1]) = 1
    /\ load_stats(ret.args[1]) # None

\* C25: save_patterns writes a temporary file and renames it over the storage
\* file, so when it raises StorageError (the argument is no list, the list
\* cannot be serialized, the rename fails) the storage file holds what it held,
\* load_patterns returns what it returned before the call, and no .tmp_*.json
\* file is left in the directory; after a save that succeeds no temporary file
\* is left either.
C25_AtomicSave ==
    [][ret'.op = "save_patterns" =>
           /\ ret'.raised # "" =>
                  (ret'.raised = "StorageError" /\ storage_file' = storage_file
                      /\ LoadOutcome' = LoadOutcome)
           /\ temp_files' = 0]_vars

\* C25 amended: a save_patterns that raises StorageError leaves the storage
\* file and what load_patterns returns as they were; a call whose argument is
\* no list and a call that succeeds leave no temporary file of their own; a
\* call whose write or rename fails leaves at most its own temporary file,
\* the one whose removal failed as well.
C25_AtomicSaveBestEffortCleanup ==
    [][ret'.op = "save_patterns" =>
           /\ ret'.raised # "" =>
                  (ret'.raised = "StorageError" /\ storage_file' = storage_file
                      /\ LoadOutcome' = LoadOutcome)
           /\ (ret'.raised = "" \/ ret'.args[1].t # "list") => temp_files' = temp_files
           /\ temp_files' \in {temp_files, temp_files + 1}]_vars

\* a save of a list json cannot encode failed on a storage file that holds a
\* list of two dicts, and its temporary file stayed
C25_Witness ==
    /\ ret.op = "save_patterns" /\ ret.raised = "StorageError"
    /\ ret.args[1].t = "list" /\ NotSerializable(ret.args[1])
    /\ last_save # None /\ Len(last_save[1].v) = 2
    /\ LoadOutcome.result = last_save[1]
    /\ temp_files = 1

\* the id of the request on a line, null when the line is no JSON request
ExpectedId(text) ==
    IF text = NotJson \/ JsonLoad(text).t # "dict" THEN PyNone
    ELSE DictGet(JsonLoad(text).v, "id", PyNone)

\* the method of the request on a line is none of the three run knows
UnknownMethod(text) ==
    /\ text # NotJson /\ JsonLoad(text).t = "dict"
    /\ LET method == DictGet(JsonLoad(text).v, "method", PyNone)
       IN  ~(IsStr(method, "initialize") \/ IsStr(method, "tools/list")
                \/ IsStr(method, "tools/call"))

\* handling the line raises: it is no JSON, it is no JSON object, or it is a
\* tools/call whose params are no object or whose tool call raises
RaisesWhileHandled(text) ==
    \/ text = NotJson
    \/ JsonLoad(text).t # "dict"
    \/ /\ IsStr(DictGet(JsonLoad(text).v, "method", PyNone), "tools/call")
       /\ LET params == DictGet(JsonLoad(text).v, "params", PyDict(<< >>))
          IN  \/ params.t # "dict"
              \/ ToolCallRaises(DictGet(params.v, "name", PyNone),
                                DictGet(params.v, "arguments", PyDict(<< >>)))

\* C27: for every line run has read, in any input of well-formed and
\* malformed lines, exactly one response was written before the next line was
\* read; its id is the id of the request on that line, or null when the line
\* cannot be parsed as a JSON request; an unknown method gets the error code
\* -32601 and an exception while handling the error code -32603.
C27_ResponseCorrelation ==
    /\ running \in {"running", "returned"}
    /\ Len(stdout) = line_no
    /\ \A i \in 1..line_no :
           /\ stdout[i].id = ExpectedId(stdin[i])
           /\ UnknownMethod(stdin[i]) => stdout[i].error = Some(-32601)
           /\ RaisesWhileHandled(stdin[i]) => stdout[i].error = Some(-32603)

\* every line read so far spells a JSON object
ObjectLinesOnly ==
    \A i \in 1..line_no : stdin[i] # NotJson /\ JsonLoad(stdin[i]).t = "dict"

\* the claim for inputs whose lines are all JSON objects
C27_ObjectLines == ObjectLinesOnly => C27_ResponseCorrelation

\* three requests answered: an unknown method, a tool call that raises, a
\* tool call that returns
C27_ObjectLinesWitness ==
    /\ line_no = 3 /\ ObjectLinesOnly
    /\ stdout[1] = Response(PyStr(<<49>>), Some(-32601))
    /\ stdout[2] = Response(PyStr(<<49>>), Some(-32603))
    /\ stdout[3] = Response(PyStr(<<50>>), None)

\* a query that is one term: not empty and without whitespace
SingleTerm(query) == Truthy(query) /\ \A i \in DOMAIN query : ~IsSpace(query[i])

\* C28: for any repository state, any category and tags filter and any query
\* that is a single term without whitespace, every pattern that
\* search_patterns(query, category, tags) returns is the pattern of a result
\* of KeywordSearchEngine.search(query, category, tags), with a score above 0.
C28_RankedCoversUnranked ==
    (ret.op = "search_patterns" /\ SingleTerm(ret.args[1])) =>
        LET ranked == search(ret.args[1], ret.args[2], ret.args[3])
        IN  \A i \in DOMAIN ret.result :
                \E j \in DOMAIN ranked :
                    ranked[j].pattern = ret.result[i] /\ ranked[j].score > 0

\* search_patterns("b") returned two patterns, one of which holds "b" only
\* as a part of the word "ab" of its solution
C28_Witness ==
    /\ ret.op = "search_patterns" /\ ret.args = <<<<98>>, None, None>>
    /\ Len(ret.result) = 2
    /\ \E i \in DOMAIN ret.result :
           /\ ret.result[i].name = <<97>>
           /\ ret.result[i].category = <<65, 98>>
           /\ ret.result[i].tags = << >>

\* the lists of the rebuilt repository are the lists of the old one
SameLists == Listings = ret.result.lists

\* C29: two sequences of successful add_pattern calls that add the same
\* patterns in different orders give repositories whose list_all_patterns(),
\* get_patterns_by_category(c), get_all_categories() and search(query,
\* category, tags) return identical results in identical order.
C29_InsertionOrderIndependence ==
    ret.op = "add_patterns_in_order" =>
        (SameLists /\ get_all_categories = ret.result.categories)

\* C29 amended: list_all_patterns(), get_patterns_by_category(c) and
\* search(query, category, tags) return identical lists in identical order;
\* get_all_categories() returns dicts with the same categories and counts,
\* the keys of each in the order in which its repository first met them.
C29_OrderIndependentLists ==
    ret.op = "add_patterns_in_order" =>
        /\ SameLists
        /\ Range(get_all_categories) = Range(ret.result.categories)
        /\ Len(get_all_categories) = Len(ret.result.categories)

\* two patterns of two categories were added again in the other order: the
\* categories come in the other order, and a search finds both patterns
C29_Witness ==
    /\ ret.op = "add_patterns_in_order" /\ Len(patterns) = 2
    /\ DictValues(patterns) # DictValues(pre[1])
    /\ get_all_categories = <<<<<<98>>, 1>>, <<<<65, 98>>, 1>>>>
    /\ ret.result.categories = <<<<<<65, 98>>, 1>>, <<<<98>>, 1>>>>
    /\ Len(search(<<97>>, None, Some(<<<<65>>>>))) = 2

\* a list of records that validate, no two of the same name
ValidRecords(patterns_data) ==
    /\ patterns_data.t = "list"
    /\ \A i \in DOMAIN patterns_data.v : ~ValidationError(patterns_data.v[i])
    /\ \A i, j \in DOMAIN patterns_data.v :
           RawOf(patterns_data.v[i]).name = RawOf(patterns_data.v[j]).name => i = j

\* C30: when load_from_dict is called a second time on the same repository
\* with the same list of valid records of pairwise distinct names, the
\* second call reports loaded_successfully = 0 and failed_patterns =
\* total_patterns, and the patterns, the indexes and count() are as they
\* were after the first call.
C30_ReloadRejected ==
    [][(/\ ret.op = "load_from_dict" /\ ret.raised = ""
        /\ ret'.op = "load_from_dict" /\ ret'.args = ret.args
        /\ ValidRecords(ret.args[1]))
           => /\ ret'.raised = ""
              /\ ret'.result.total_patterns = Len(ret.args[1].v)
              /\ ret'.result.loaded_successfully = 0
              /\ ret'.result.failed_patterns = ret'.result.total_patterns
              /\ repo' = repo
              /\ count' = count]_vars

\* [a record named "a" without an id, ("1", "b")] was given again to the
\* repository that holds the two patterns made of it, one under a default
\* id: both records were rejected
C30_Witness ==
    /\ ret.op = "load_from_dict" /\ ret.raised = ""
    /\ ret.args = <<JsonLoad(JsonArray(<<RecordWithoutId(<<97>>),
                                         RecordDoc(<<49>>, <<98>>)>>))>>
    /\ ret.result.loaded_successfully = 0 /\ ret.result.failed_patterns = 2
    /\ pre = repo
    /\ [i \in DOMAIN patterns |-> patterns[i][1]] = <<<<117, 48>>, <<49>>>>
    /\ [i \in DOMAIN name_index |-> name_index[i][1]] = <<<<97>>, <<98>>>>

====
